---- MODULE Spec2Model ----
(***************************************************************************)
(* Run lifecycle and dispatch of the scheduling solver service: the        *)
(* dispatcher (lambda_handler.py), the SQS consumers (solver_worker_ecs.py,*)
(* solver_worker_lambda.py, lambda_worker_handler.py), the SQS-to-ECS      *)
(* trigger (sqs_ecs_trigger.py), the progress estimators and the result    *)
(* folder numbering, all writing to one S3 bucket.                         *)
(***************************************************************************)
EXTENDS Integers, Sequences, FiniteSets, TLC

(***************************************************************************)
(* Strings whose characters the code inspects (folder names) are sequences *)
(* of one-character strings.                                               *)
(***************************************************************************)
Digits == <<"0", "1", "2", "3", "4", "5", "6", "7", "8", "9">>

DigitChars == {Digits[i] : i \in 1..10}

DigitVal(c) == (CHOOSE i \in 1..10 : Digits[i] = c) - 1

\* str(n) as the f-string f"result_{n}" formats an int
RECURSIVE NatToStr(_)
NatToStr(n) ==
    IF n < 10 THEN <<Digits[n + 1]>>
    ELSE NatToStr(n \div 10) \o <<Digits[(n % 10) + 1]>>

IntToStr(n) == IF n < 0 THEN <<"-">> \o NatToStr(0 - n) ELSE NatToStr(n)

RECURSIVE DigitsToNat(_, _)
DigitsToNat(s, acc) ==
    IF s = <<>> THEN acc
    ELSE DigitsToNat(Tail(s), IF s[1] = "_" THEN acc ELSE 10 * acc + DigitVal(s[1]))

\* the literal grammar of Python's int(str): digits, single underscores
\* between digits, an optional sign in front (no whitespace in the alphabet)
IsPyDigits(s) ==
    /\ Len(s) > 0
    /\ s[1] \in DigitChars
    /\ s[Len(s)] \in DigitChars
    /\ \A i \in 1..Len(s) : s[i] \in DigitChars \cup {"_"}
    /\ \A i \in 1..(Len(s) - 1) : ~(s[i] = "_" /\ s[i + 1] = "_")

\* int(s): [ok |-> FALSE] stands for ValueError
PyInt(s) ==
    IF Len(s) > 0 /\ s[1] \in {"-", "+"}
    THEN IF IsPyDigits(Tail(s))
         THEN [ok |-> TRUE,
               val |-> IF s[1] = "-" THEN 0 - DigitsToNat(Tail(s), 0)
                       ELSE DigitsToNat(Tail(s), 0)]
         ELSE [ok |-> FALSE, val |-> 0]
    ELSE IF IsPyDigits(s)
         THEN [ok |-> TRUE, val |-> DigitsToNat(s, 0)]
         ELSE [ok |-> FALSE, val |-> 0]

\* str.startswith
StartsWith(s, p) == Len(s) >= Len(p) /\ SubSeq(s, 1, Len(p)) = p

\* str.replace(pat, ''): every non-overlapping occurrence, left to right
RECURSIVE RemoveAll(_, _)
RemoveAll(s, pat) ==
    IF s = <<>> THEN <<>>
    ELSE IF StartsWith(s, pat) THEN RemoveAll(SubSeq(s, Len(pat) + 1, Len(s)), pat)
    ELSE <<s[1]>> \o RemoveAll(Tail(s), pat)

\* the length of the longest prefix of s made of characters of cs
RECURSIVE SpanLen(_, _)
SpanLen(s, cs) ==
    IF s = <<>> \/ s[1] \notin cs THEN 0 ELSE 1 + SpanLen(Tail(s), cs)

\* str.split('_')[1], for a string that holds at least one '_'
SplitField1(s) ==
    LET all   == {"a"} \cup {s[i] : i \in 1..Len(s)}
        n0    == SpanLen(s, all \ {"_"})
        rest  == SubSeq(s, n0 + 2, Len(s))
        n1    == SpanLen(rest, all \ {"_"})
    IN  SubSeq(rest, 1, n1)

ResultPrefix == <<"r", "e", "s", "u", "l", "t", "_">>

LegacyPrefix == <<"R", "e", "s", "u", "l", "t", "_">>

\* f"result_{result_num}"
FolderName(n) == ResultPrefix \o IntToStr(n)

RECURSIVE SetMax(_)
\* max(numbers) of a non-empty collection
SetMax(S) ==
    LET x == CHOOSE y \in S : TRUE
    IN  IF S = {x} THEN x
        ELSE LET m == SetMax(S \ {x}) IN IF x > m THEN x ELSE m

(***************************************************************************)
(* get_next_result_number, once per file that defines it.  The argument is *)
(* the CommonPrefixes of a successful list_objects_v2(Delimiter='/'), each *)
(* with its trailing '/' stripped.                                         *)
(***************************************************************************)
\* solver_worker_ecs.py
EcsNumbers(prefixes) ==
    {PyInt(RemoveAll(f, ResultPrefix)).val :
        f \in {g \in prefixes : /\ StartsWith(g, ResultPrefix)
                                /\ PyInt(RemoveAll(g, ResultPrefix)).ok}}

get_next_result_number_ecs(prefixes) ==
    IF prefixes = {} THEN 1
    ELSE IF EcsNumbers(prefixes) # {} THEN SetMax(EcsNumbers(prefixes)) + 1 ELSE 1

\* solver_worker_lambda.py
get_next_result_number_sqs(prefixes) ==
    IF prefixes = {} THEN 1
    ELSE LET numbers ==
               {PyInt(RemoveAll(f, ResultPrefix)).val :
                   f \in {g \in prefixes : /\ StartsWith(g, ResultPrefix)
                                           /\ PyInt(RemoveAll(g, ResultPrefix)).ok}}
         IN  IF numbers # {} THEN SetMax(numbers) + 1 ELSE 1

\* lambda_worker_handler.py
get_next_result_number_worker(prefixes) ==
    LET result_numbers ==
          {PyInt(SplitField1(f)).val :
              f \in {g \in prefixes : /\ StartsWith(g, ResultPrefix)
                                      /\ PyInt(SplitField1(g)).ok}}
    IN  IF result_numbers # {} THEN SetMax(result_numbers) + 1 ELSE 1

\* re.match(r'(?:Result_|result_)(\d+)', folder): the digits of group 1, or <<>>
ReMatchResult(folder) ==
    IF StartsWith(folder, LegacyPrefix) \/ StartsWith(folder, ResultPrefix)
    THEN LET rest == SubSeq(folder, Len(ResultPrefix) + 1, Len(folder))
         IN  SubSeq(rest, 1, SpanLen(rest, DigitChars))
    ELSE <<>>

RECURSIVE MaxNumLoop(_, _)
\* the loop of lambda_handler.py: max_num starts at 0 and only grows
MaxNumLoop(prefixes, max_num) ==
    IF prefixes = {} THEN max_num
    ELSE LET folder == CHOOSE f \in prefixes : TRUE
             digits == ReMatchResult(folder)
             num    == DigitsToNat(digits, 0)
         IN  MaxNumLoop(prefixes \ {folder},
                        IF digits # <<>> /\ num > max_num THEN num ELSE max_num)

\* lambda_handler.py
get_next_result_number_api(prefixes) == MaxNumLoop(prefixes, 0) + 1

(***************************************************************************)
(* list_result_folders of lambda_handler.py and lambda_handler_sqs.py:     *)
(* the names that start with result_, sorted by name in reverse.           *)
(***************************************************************************)
\* ord(c) of the characters folder names are written with
Ord(c) ==
    CASE c = "-" -> 45
      [] c \in DigitChars -> 48 + DigitVal(c)
      [] c = "R" -> 82
      [] c = "_" -> 95
      [] c = "e" -> 101
      [] c = "l" -> 108
      [] c = "n" -> 110
      [] c = "r" -> 114
      [] c = "s" -> 115
      [] c = "t" -> 116
      [] c = "u" -> 117
      [] c = "x" -> 120

RECURSIVE StrLess(_, _)
\* a < b as Python compares two str values
StrLess(a, b) ==
    IF b = <<>> THEN FALSE
    ELSE IF a = <<>> THEN TRUE
    ELSE IF a[1] = b[1] THEN StrLess(Tail(a), Tail(b))
    ELSE Ord(a[1]) < Ord(b[1])

RECURSIVE SortedReverse(_)
\* sorted(names, reverse=True)
SortedReverse(names) ==
    IF names = {} THEN <<>>
    ELSE LET top == CHOOSE a \in names : \A b \in names \ {a} : StrLess(b, a)
         IN  <<top>> \o SortedReverse(names \ {top})

\* the 'name' entries of the answer of list_result_folders, in order
ListedFolders(names) == SortedReverse({f \in names : StartsWith(f, ResultPrefix)})

(***************************************************************************)
(* Folder names used to exercise the numbering.                            *)
(***************************************************************************)
NameUniverse ==
    { ResultPrefix \o <<"1">>,
      ResultPrefix \o <<"2">>,
      ResultPrefix \o <<"3">>,
      ResultPrefix \o <<"1", "2">>,
      LegacyPrefix \o <<"5">>,
      ResultPrefix \o <<"x">>,
      ResultPrefix \o <<"-", "3">>,
      <<"r", "u", "n", "s">> }

(***************************************************************************)
(* Bounds of the model.                                                    *)
(***************************************************************************)
MaxWorkers == 1      \* worker processes (ECS tasks / Lambda invocations) at once
MaxFiles == 1        \* files the Solver leaves in its output directory
MaxTime == 1         \* clock steps while a progress tracker runs
MaxFaults == 1       \* failed AWS calls (S3, SQS, ECS) in one behaviour
MaxDeliveries == 2   \* times SQS hands the job message to a consumer
MaxStops == 1        \* stop requests of the client
TimeUnit == 1800     \* seconds in one clock step
TicksPerSecond == 10 \* readings of time.time() told apart within one second

Workers == 1..MaxWorkers

Run == "r1"          \* the run_id solve() generates
OtherRun == "r2"     \* the run_id of somebody else's ECS task
RunIds == {Run, OtherRun}

Terminal == {"completed", "failed", "stopped"}
NonTerminal == {"queued", "starting", "running"}

NoFolder == <<>>

\* a JSON status record: keys names the optional keys it holds;
\* progress is what status_data.get("progress", 0) reads
Rec(st, p, ks, od) == [status |-> st, progress |-> p, keys |-> ks, out_dir |-> od]

\* no object under the key (NoSuchKey, or not in active_runs)
NoRec == Rec("none", 0, {}, NoFolder)

RunsPrefix == <<"r", "u", "n", "s">>
JobsPrefix == <<"j", "o", "b", "s">>
MetadataJson == <<"metadata.json", 0>>
OutFile(k) == <<"file", k>>

\* the objects of a result folder are <<folder name, file>>
Key(folder, file) == <<folder, file>>

\* int(datetime.utcnow().timestamp()) at clock step t
Timestamp(t) == 17 * (10 ^ 8) + t * TimeUnit

VARIABLES
    prefixes,     \* numbering check: the top-level folder names of the store
    numbered,     \* numbering check: what each get_next_result_number returned
    deploy,       \* which consumer is wired to the queue
    s3_status,    \* runs/<run_id>/status.json in the bucket
    active_runs,  \* the dispatcher's in-memory table
    jobs,         \* run ids with jobs/<run_id>/input.json in the bucket
    bucket,       \* the objects of the result folders
    sqs,          \* the job message in the queue
    worker,       \* per worker process: position and locals
    tracker,      \* per worker process: its progress tracker thread
    trigger,      \* the SQS-to-ECS trigger invocation
    other_task,   \* an ECS task of another run is RUNNING
    now,          \* the clock
    faults,       \* failed AWS calls so far
    solve_resp,   \* what solve() answered
    stop_resp,    \* what each stop_solver() answered, in order
    uploads,      \* the folder name each finished upload returned, in order
    api,          \* which dispatcher module serves the HTTP API
    status_resp,  \* what the latest get_status() answered
    storage_resp, \* what the latest storage or bookkeeping call answered
    event         \* the batch of queue records one handler invocation works on

vars == <<prefixes, numbered, deploy, s3_status, active_runs, jobs, bucket, sqs,
          worker, tracker, trigger, other_task, now, faults, solve_resp,
          stop_resp, uploads, api, status_resp, storage_resp, event>>

numVars == <<prefixes, numbered>>

apiVars == <<api, status_resp, storage_resp, event>>

\* no storage call has been answered
NoStorageResponse ==
    [op |-> "none", code |-> 0, body |-> {}, folders |-> <<>>, deleted |-> 0]

\* get_status() has not been called
NoResponse ==
    [n |-> 0, code |-> 0, run_id |-> "none", status |-> "none", progress |-> 0,
     from |-> "none"]

NotCalled == [called |-> FALSE, api |-> 0, ecs |-> 0, sqs |-> 0, worker |-> 0]

\* the deployments of the repository: the ECS service polling the queue
\* (solver_worker_ecs.py), the trigger Lambda starting one ECS task per
\* message (sqs_ecs_trigger.py), and the SQS worker Lambda
\* (solver_worker_lambda.py)
Deployments == {"ecs_poll", "ecs_trigger", "sqs_lambda"}

\* run_id is the run_id of the job the process handles, task_run_id the
\* RUN_ID of its environment (set for the tasks the trigger starts)
IdleWorker(pc) ==
    [pc |-> pc, outcome |-> "none", folder |-> NoFolder, nfiles |-> 0,
     out_exists |-> TRUE, upl |-> 0, terms |-> 0, killed |-> FALSE,
     run_id |-> Run, task_run_id |-> Run]

NoTracker == [pc |-> "off", stop_flag |-> FALSE, last_progress |-> 0,
              start_time |-> 0, pending |-> 0]

OldBucket == {Key(FolderName(1), MetadataJson), Key(FolderName(3), MetadataJson)}

\* no batch: the event of an invocation followed step by step
NoEvent == [handler |-> "none", records |-> <<>>, next |-> 1, outcomes |-> <<>>,
            code |-> 0]

PipelineInit ==
    /\ s3_status = [r \in RunIds |-> NoRec]
    /\ active_runs = [r \in RunIds |-> NoRec]
    /\ jobs = {}
    /\ sqs = [state |-> "none", holder |-> 0, deliveries |-> 0, keys |-> {}]
    /\ tracker = [w \in Workers |-> NoTracker]
    /\ trigger = [pc |-> "idle", task_arn |-> FALSE]
    /\ now = 0
    /\ faults = 0
    /\ solve_resp = "none"
    /\ stop_resp = <<>>
    /\ uploads = <<>>
    /\ status_resp = NoResponse
    /\ storage_resp = NoStorageResponse
    /\ event = NoEvent

Init ==
    /\ prefixes = {}
    /\ api = "lambda_handler"
    /\ numbered = NotCalled
    /\ deploy \in Deployments
    /\ bucket \in {{}, OldBucket}
    /\ other_task \in (IF deploy = "ecs_poll" THEN {FALSE} ELSE BOOLEAN)
    /\ worker = [w \in Workers |->
                    IdleWorker(IF deploy = "ecs_poll" THEN "poll" ELSE "off")]
    /\ PipelineInit

\* an AWS call that may fail: ok is its outcome
Fault(oks) ==
    LET n == Cardinality({i \in 1..Len(oks) : ~oks[i]})
    IN  /\ faults + n <= MaxFaults
        /\ faults' = faults + n

\* s3_client.put_object on runs/<run_id>/status.json
\* every run under one key
SharedKey(run_id) == Run

\* status_key = f"runs/{run_id}/status.json": the record is keyed by run_id
StatusKey(run_id) == run_id

PutStatus(st, run_id, rec, ok) ==
    IF ok THEN [st EXCEPT ![StatusKey(run_id)] = rec] ELSE st

\* a listing that also showed the folder names already handed out to uploads
\* in progress, as an allocation that reserved its name would make it
CommonPrefixesReserved ==
    {k[1] : k \in bucket}
      \cup {worker[w].folder : w \in {v \in DOMAIN worker : worker[v].folder # NoFolder}}

\* CommonPrefixes of list_objects_v2(Bucket, Delimiter='/'), '/' stripped
CommonPrefixes ==
    {k[1] : k \in bucket}
      \cup (IF \E r \in RunIds : s3_status[r] # NoRec THEN {RunsPrefix} ELSE {})
      \cup (IF jobs # {} THEN {JobsPrefix} ELSE {})

(***************************************************************************)
(* Dispatcher: lambda_handler.py solve(), with SOLVER_QUEUE_URL set.       *)
(***************************************************************************)
QueuedRec == Rec("queued", 0, {"progress", "created_at"}, NoFolder)

solve ==
    /\ api = "lambda_handler"
    /\ solve_resp = "none"
    /\ \E s3_ok, sqs_ok, s3_fail_ok \in BOOLEAN :
        /\ Fault(<<s3_ok, s3_ok => sqs_ok, (s3_ok /\ ~sqs_ok) => s3_fail_ok>>)
        /\ IF ~s3_ok
           THEN \* the initial put_object raises: HTTP 500 from the outer except
                /\ active_runs' = [active_runs EXCEPT ![Run] = QueuedRec]
                /\ solve_resp' = "http500"
                /\ UNCHANGED <<s3_status, sqs>>
           ELSE IF sqs_ok
           THEN /\ active_runs' = [active_runs EXCEPT ![Run] = QueuedRec]
                /\ s3_status' = [s3_status EXCEPT ![Run] = QueuedRec]
                /\ sqs' = [state |-> "visible", holder |-> 0, deliveries |-> 0,
                           keys |-> {"run_id", "case"}]
                /\ solve_resp' = "queued"
           ELSE \* send_message raises: the run is marked failed
                /\ s3_status' = PutStatus([s3_status EXCEPT ![Run] = QueuedRec], Run,
                                    Rec("failed", 0, {"progress", "created_at", "error"},
                                        NoFolder), s3_fail_ok)
                /\ active_runs' = [active_runs EXCEPT ![Run] =
                                    IF s3_fail_ok
                                    THEN [QueuedRec EXCEPT !.status = "failed"]
                                    ELSE QueuedRec]
                /\ solve_resp' = "http500"
                /\ UNCHANGED sqs
    /\ UNCHANGED <<numVars, apiVars, deploy, jobs, bucket, worker, tracker, trigger,
                   other_task, now, uploads, stop_resp>>

\* lambda_handler_sqs.py solve(): the run is entered in active_runs only, then
\* the message is sent; a failed send is answered with HTTP 500
solve_sqs ==
    /\ api = "lambda_handler_sqs"
    /\ solve_resp = "none"
    /\ active_runs' = [active_runs EXCEPT ![Run] = QueuedRec]
    /\ \E sqs_ok \in BOOLEAN :
        /\ Fault(<<sqs_ok>>)
        /\ IF sqs_ok
           THEN /\ sqs' = [state |-> "visible", holder |-> 0, deliveries |-> 0,
                           keys |-> {"run_id", "case", "created_at"}]
                /\ solve_resp' = "queued"
           ELSE /\ solve_resp' = "http500"
                /\ UNCHANGED sqs
    /\ UNCHANGED <<numVars, apiVars, deploy, s3_status, jobs, bucket, worker,
                   tracker, trigger, other_task, now, uploads, stop_resp>>

(***************************************************************************)
(* get_status of the two dispatcher modules.                               *)
(***************************************************************************)
MaxPolls == 2        \* get_status requests of the client

\* the JSON answer built from a record, and where the record came from
\* an answer that always has the shape of a found record
ResponseFound(code, run_id, rec, from) ==
    [n |-> status_resp.n + 1, code |-> 200, run_id |-> run_id,
     status |-> rec.status, progress |-> rec.progress, from |-> from]

Response(code, run_id, rec, from) ==
    [n |-> status_resp.n + 1, code |-> code, run_id |-> run_id,
     status |-> rec.status, progress |-> rec.progress, from |-> from]

\* lambda_handler.py: S3 first, active_runs on NoSuchKey, 404 without either,
\* 500 on any other S3 error
get_status(run_id) ==
    /\ api = "lambda_handler"
    /\ status_resp.n < MaxPolls
    /\ \E ok \in BOOLEAN :
        /\ Fault(<<ok>>)
        /\ status_resp' =
              IF ~ok THEN Response(500, run_id, NoRec, "none")
              ELSE IF s3_status[run_id] # NoRec
              THEN Response(200, run_id, s3_status[run_id], "s3")
              ELSE IF active_runs[run_id] # NoRec
              THEN Response(200, run_id, active_runs[run_id], "active_runs")
              ELSE Response(404, run_id, NoRec, "none")
    /\ UNCHANGED <<numVars, api, storage_resp, event, deploy, s3_status, active_runs, jobs, bucket, sqs,
                   worker, tracker, trigger, other_task, now, solve_resp, stop_resp,
                   uploads>>

\* lambda_handler_sqs.py: active_runs only
get_status_sqs(run_id) ==
    /\ api = "lambda_handler_sqs"
    /\ status_resp.n < MaxPolls
    /\ status_resp' =
          IF active_runs[run_id] # NoRec
          THEN Response(200, run_id, active_runs[run_id], "active_runs")
          ELSE Response(404, run_id, NoRec, "none")
    /\ UNCHANGED <<numVars, api, storage_resp, event, deploy, s3_status, active_runs, jobs, bucket, sqs,
                   worker, tracker, trigger, other_task, now, faults, solve_resp,
                   stop_resp, uploads>>

(***************************************************************************)
(* The queue: at-least-once delivery.                                      *)
(***************************************************************************)
\* the visibility timeout of a received message expires, or the standard
\* queue hands out a copy of a message it already deleted
Redeliver ==
    /\ sqs.state \in {"inflight", "gone"}
    /\ sqs.deliveries < MaxDeliveries
    /\ sqs' = [sqs EXCEPT !.state = "visible"]
    /\ UNCHANGED <<numVars, apiVars, deploy, s3_status, active_runs, jobs, bucket, worker,
                   tracker, trigger, other_task, now, faults, solve_resp,
                   stop_resp, uploads>>

\* receive_message / the Lambda event source hand the message to holder h
Received(h) ==
    [sqs EXCEPT !.state = "inflight", !.holder = h, !.deliveries = sqs.deliveries + 1]

\* body.get('run_id') and body.get(key) are both there: the test every
\* consumer makes before it works on a message
HasJob(key) == {"run_id", key} \subseteq sqs.keys

\* delete_message with the receipt handle holder h got: a handle that is no
\* longer the latest one deletes nothing
Deleted(h) ==
    IF sqs.state = "inflight" /\ sqs.holder = h
    THEN [sqs EXCEPT !.state = "gone"] ELSE sqs

(***************************************************************************)
(* SmoothProgressTracker of solver_worker_ecs.py.                          *)
(***************************************************************************)
Min(a, b) == IF a < b THEN a ELSE b
Max(a, b) == IF a > b THEN a ELSE b

\* s seconds in ticks of the clock; elapsed is a float in the code and is
\* counted in ticks of 1/TicksPerSecond seconds here
Seconds(s) == s * TicksPerSecond

\* the curve of _update_loop at elapsed ticks: int() of the band's formula
SmoothCurve(elapsed) ==
    IF elapsed < Seconds(60) THEN (20 * elapsed) \div Seconds(60)
    ELSE IF elapsed < Seconds(300)
         THEN 20 + (30 * (elapsed - Seconds(60))) \div Seconds(240)
    ELSE IF elapsed < Seconds(1800)
         THEN 50 + (25 * (elapsed - Seconds(300))) \div Seconds(1500)
    ELSE IF elapsed < Seconds(3600)
         THEN 75 + (10 * (elapsed - Seconds(1800))) \div Seconds(1800)
    ELSE IF elapsed < Seconds(7200)
         THEN 85 + (7 * (elapsed - Seconds(3600))) \div Seconds(3600)
    ELSE 92 + (IF elapsed - Seconds(7200) >= Seconds(3600) THEN 3
               ELSE (3 * (elapsed - Seconds(7200))) \div Seconds(3600))

\* progress = max(progress, self.last_progress); progress = min(progress, 95)
SmoothProgress(elapsed, last_progress) ==
    Min(Max(SmoothCurve(elapsed), last_progress), 95)

\* the record _update_status puts
TrackerRec(progress) == Rec("running", progress, {"progress"}, NoFolder)

\* one pass of the while loop up to the decision to write; time.sleep(10)
\* brings the thread back here
tracker_check_at(w, elapsed) ==
    /\ tracker[w].pc = "loop"
    /\ IF tracker[w].stop_flag
       THEN tracker' = [tracker EXCEPT ![w] = [NoTracker EXCEPT !.pc = "done"]]
       ELSE LET p == SmoothProgress(elapsed, tracker[w].last_progress)
            IN  /\ p > tracker[w].last_progress
                /\ tracker' = [tracker EXCEPT ![w].pc = "write", ![w].pending = p]
    /\ UNCHANGED <<numVars, apiVars, deploy, s3_status, active_runs, jobs, bucket, sqs,
                   worker, trigger, other_task, now, faults, solve_resp,
                   stop_resp, uploads>>

\* the pass of the loop at the pipeline's clock
tracker_check(w) ==
    tracker_check_at(w, Seconds((now - tracker[w].start_time) * TimeUnit))

\* _update_status: the put, its failure logged and dropped
tracker_write(w) ==
    /\ tracker[w].pc = "write"
    /\ \E ok \in BOOLEAN :
        /\ Fault(<<ok>>)
        /\ s3_status' = PutStatus(s3_status, worker[w].run_id,
                                  TrackerRec(tracker[w].pending), ok)
    /\ tracker' = [tracker EXCEPT ![w].pc = "loop",
                                  ![w].last_progress = tracker[w].pending]
    /\ UNCHANGED <<numVars, apiVars, deploy, active_runs, jobs, bucket, sqs, worker,
                   trigger, other_task, now, solve_resp, stop_resp, uploads>>

\* time passes while a tracker thread is alive
Tick ==
    /\ now < MaxTime
    /\ \E w \in DOMAIN tracker :
          tracker[w].pc \in {"loop", "write", "lw_loop", "lw_write"}
    /\ now' = now + 1
    /\ UNCHANGED <<numVars, apiVars, deploy, s3_status, active_runs, jobs, bucket, sqs,
                   worker, tracker, trigger, other_task, faults, solve_resp,
                   stop_resp, uploads>>

(***************************************************************************)
(* solver_worker_ecs.py: process_solver_job, upload_results_to_s3,         *)
(* update_job_status, poll_sqs_forever and the single-run entry point.     *)
(***************************************************************************)
\* the record update_job_status puts: metadata carries neither 'result' nor
\* 'output_directory', and progress defaults to 0
JobStatusRec(status, progress) == Rec(status, progress, {"progress"}, NoFolder)

IsTerminalPut(rec, ok) == IF ok /\ rec.status \in Terminal THEN 1 ELSE 0

\* where process_solver_job returns to
AfterJob == IF deploy = "ecs_poll" THEN "ack" ELSE "exit"

\* receive_message hands worker w the job message
poll_receive(w) ==
    /\ deploy = "ecs_poll"
    /\ worker[w].pc = "poll"
    /\ sqs.state = "visible"
    /\ sqs' = Received(w)
    /\ worker' = [worker EXCEPT ![w] =
                     IdleWorker(IF HasJob("case") THEN "job" ELSE "ack")]
    /\ UNCHANGED <<numVars, apiVars, deploy, s3_status, active_runs, jobs, bucket, tracker,
                   trigger, other_task, now, faults, solve_resp, stop_resp, uploads>>

\* update_job_status(run_id, 'running', progress 0), then the tracker starts
\* (a tracker thread of the worker's previous job that has not ended yet is
\* followed no further: the model keeps one tracker thread per worker)
job_start(w) ==
    /\ worker[w].pc = "job"
    /\ \E ok \in BOOLEAN :
        /\ Fault(<<ok>>)
        /\ s3_status' = PutStatus(s3_status, worker[w].run_id, JobStatusRec("running", 0), ok)
    /\ tracker' = [tracker EXCEPT ![w] =
                      [pc |-> "loop", stop_flag |-> FALSE, last_progress |-> 0,
                       start_time |-> now, pending |-> 0]]
    /\ worker' = [worker EXCEPT ![w].pc = "solve"]
    /\ UNCHANGED <<numVars, apiVars, deploy, active_runs, jobs, bucket, sqs, trigger,
                   other_task, now, solve_resp, stop_resp, uploads>>

\* solver_core_real.Solve_test_case_lambda returns (with its output files) or
\* raises; an output directory that is gone is an environment fault
solve_call(w) ==
    /\ worker[w].pc = "solve"
    /\ \/ \E n \in 0..MaxFiles, exists \in BOOLEAN :
            /\ Fault(<<exists>>)
            /\ worker' = [worker EXCEPT ![w].pc = "stop", ![w].outcome = "ok",
                                        ![w].nfiles = n, ![w].out_exists = exists]
       \/ /\ worker' = [worker EXCEPT ![w].pc = "except", ![w].outcome = "raised"]
          /\ UNCHANGED faults
    /\ UNCHANGED <<numVars, apiVars, deploy, s3_status, active_runs, jobs, bucket, sqs,
                   tracker, trigger, other_task, now, solve_resp, stop_resp, uploads>>

\* progress_tracker.stop(): the flag is set and join(timeout=2.0) returns,
\* whether or not the thread has ended
tracker_stop(w) ==
    /\ worker[w].pc \in {"stop", "except"}
    /\ tracker' = [tracker EXCEPT ![w].stop_flag = TRUE]
    /\ worker' = [worker EXCEPT ![w].pc = IF worker[w].pc = "stop" THEN "alloc" ELSE "fail"]
    /\ UNCHANGED <<numVars, apiVars, deploy, s3_status, active_runs, jobs, bucket, sqs,
                   trigger, other_task, now, faults, solve_resp, stop_resp, uploads>>

\* upload_results_to_s3 up to the os.path.exists test: the number comes from
\* get_next_result_number, or from the clock when the listing raises
upload_alloc(w) ==
    /\ worker[w].pc = "alloc"
    /\ \E ok \in BOOLEAN :
        /\ Fault(<<ok>>)
        /\ LET result_num  == IF ok THEN get_next_result_number_ecs(CommonPrefixes)
                              ELSE Timestamp(now)
               folder_name == FolderName(result_num)
           IN  IF worker[w].out_exists
               THEN /\ worker' = [worker EXCEPT ![w].pc = "upload",
                                                ![w].folder = folder_name, ![w].upl = 0]
                    /\ UNCHANGED uploads
               ELSE /\ worker' = [worker EXCEPT ![w].pc = "complete",
                                                ![w].folder = folder_name]
                    /\ uploads' = Append(uploads, folder_name)
    /\ UNCHANGED <<numVars, apiVars, deploy, s3_status, active_runs, jobs, bucket, sqs,
                   tracker, trigger, other_task, now, solve_resp, stop_resp>>

\* s3_client.upload_file of the next file; a failure is logged and skipped
upload_file(w) ==
    /\ worker[w].pc = "upload"
    /\ worker[w].upl < worker[w].nfiles
    /\ \E ok \in BOOLEAN :
        /\ Fault(<<ok>>)
        /\ bucket' = IF ok THEN bucket \cup {Key(worker[w].folder, OutFile(worker[w].upl + 1))}
                     ELSE bucket
    /\ worker' = [worker EXCEPT ![w].upl = worker[w].upl + 1]
    /\ UNCHANGED <<numVars, apiVars, deploy, s3_status, active_runs, jobs, sqs, tracker,
                   trigger, other_task, now, solve_resp, stop_resp, uploads>>

\* the put of metadata.json ends the upload; its failure is raised
upload_metadata(w) ==
    /\ worker[w].pc = "upload"
    /\ worker[w].upl = worker[w].nfiles
    /\ \E ok \in BOOLEAN :
        /\ Fault(<<ok>>)
        /\ IF ok
           THEN /\ bucket' = bucket \cup {Key(worker[w].folder, MetadataJson)}
                /\ uploads' = Append(uploads, worker[w].folder)
                /\ worker' = [worker EXCEPT ![w].pc = "complete"]
           ELSE /\ worker' = [worker EXCEPT ![w].pc = "fail"]
                /\ UNCHANGED <<bucket, uploads>>
    /\ UNCHANGED <<numVars, apiVars, deploy, s3_status, active_runs, jobs, sqs, tracker,
                   trigger, other_task, now, solve_resp, stop_resp>>

\* update_job_status(run_id, 'completed', progress 100, ...)
mark_completed(w) ==
    /\ worker[w].pc = "complete"
    /\ \E ok \in BOOLEAN :
        /\ Fault(<<ok>>)
        /\ s3_status' = PutStatus(s3_status, worker[w].run_id,
                                  JobStatusRec("completed", 100), ok)
        /\ worker' = [worker EXCEPT ![w].pc = AfterJob,
                         ![w].terms = worker[w].terms
                                        + IsTerminalPut(JobStatusRec("completed", 100), ok)]
    /\ UNCHANGED <<numVars, apiVars, deploy, active_runs, jobs, bucket, sqs, tracker,
                   trigger, other_task, now, solve_resp, stop_resp, uploads>>

\* the except branch: update_job_status(run_id, 'failed', {error, message})
mark_failed(w) ==
    /\ worker[w].pc = "fail"
    /\ \E ok \in BOOLEAN :
        /\ Fault(<<ok>>)
        /\ s3_status' = PutStatus(s3_status, worker[w].run_id,
                                  JobStatusRec("failed", 0), ok)
        /\ worker' = [worker EXCEPT ![w].pc = AfterJob,
                         ![w].terms = worker[w].terms
                                        + IsTerminalPut(JobStatusRec("failed", 0), ok)]
    /\ UNCHANGED <<numVars, apiVars, deploy, active_runs, jobs, bucket, sqs, tracker,
                   trigger, other_task, now, solve_resp, stop_resp, uploads>>

\* poll_sqs_forever after process_solver_job returned: delete_message, its
\* failure logged; then the next receive
delete_message(w) ==
    /\ worker[w].pc = "ack"
    /\ \E ok \in BOOLEAN :
        /\ Fault(<<ok>>)
        /\ sqs' = IF ok THEN Deleted(w) ELSE sqs
    /\ worker' = [worker EXCEPT ![w] = IdleWorker("poll")]
    /\ UNCHANGED <<numVars, apiVars, deploy, s3_status, active_runs, jobs, bucket, tracker,
                   trigger, other_task, now, solve_resp, stop_resp, uploads>>

\* single-run mode: get_object of jobs/<RUN_ID>/input.json, exit(1) without it
\* message_body.get('run_id') of the body stored at jobs/<run_id>/input.json:
\* start_ecs_task stores the message under the run_id the message carries
InputRunId(run_id) == run_id

\* the stored body carries "case": the body is the queue message, whose
\* shape is followed for Run; the message of another run is well-formed
InputHasCase(run_id) == run_id # Run \/ HasJob("case")

single_run_boot(w) ==
    /\ worker[w].pc = "boot"
    /\ \E ok \in BOOLEAN :
        /\ Fault(<<ok>>)
        /\ worker' = [worker EXCEPT
                         ![w].pc = IF /\ ok
                                      /\ worker[w].task_run_id \in jobs
                                      /\ InputHasCase(worker[w].task_run_id)
                                   THEN "job" ELSE "exit",
                         ![w].run_id = IF ok /\ worker[w].task_run_id \in jobs
                                       THEN InputRunId(worker[w].task_run_id)
                                       ELSE worker[w].run_id]
    /\ UNCHANGED <<numVars, apiVars, deploy, s3_status, active_runs, jobs, bucket, sqs,
                   tracker, trigger, other_task, now, solve_resp, stop_resp, uploads>>

\* single-run mode: exit(); the daemon tracker thread ends with the process
single_run_exit(w) ==
    /\ worker[w].pc = "exit"
    /\ worker' = [worker EXCEPT ![w] = IdleWorker("off")]
    /\ tracker' = [tracker EXCEPT ![w] = NoTracker]
    /\ UNCHANGED <<numVars, apiVars, deploy, s3_status, active_runs, jobs, bucket, sqs,
                   trigger, other_task, now, faults, solve_resp, stop_resp, uploads>>

\* ECS ends a task that stop_task was called on
task_killed(w) ==
    /\ worker[w].killed
    /\ worker' = [worker EXCEPT ![w] = IdleWorker("off")]
    /\ tracker' = [tracker EXCEPT ![w] = NoTracker]
    /\ UNCHANGED <<numVars, apiVars, deploy, s3_status, active_runs, jobs, bucket, sqs,
                   trigger, other_task, now, faults, solve_resp, stop_resp, uploads>>

(***************************************************************************)
(* sqs_ecs_trigger.py: lambda_handler, start_ecs_task, update_s3_status.   *)
(***************************************************************************)
\* the record update_s3_status puts
TriggerRec(status, progress) == Rec(status, progress, {"progress"}, NoFolder)

\* the Lambda event source hands the trigger the job message
trigger_invoke ==
    /\ deploy = "ecs_trigger"
    /\ trigger.pc = "idle"
    /\ sqs.state = "visible"
    /\ IF HasJob("case")
       THEN /\ sqs' = Received(0)
            /\ trigger' = [pc |-> "starting", task_arn |-> FALSE]
       ELSE \* "Invalid message format": the record is skipped and the handler returns
            /\ sqs' = [Received(0) EXCEPT !.state = "gone"]
            /\ UNCHANGED trigger
    /\ UNCHANGED <<numVars, apiVars, deploy, s3_status, active_runs, jobs, bucket, worker,
                   tracker, other_task, now, faults, solve_resp, stop_resp, uploads>>

\* update_s3_status(run_id, "starting", 0, ...), its failure logged
trigger_starting ==
    /\ trigger.pc = "starting"
    /\ \E ok \in BOOLEAN :
        /\ Fault(<<ok>>)
        /\ s3_status' = PutStatus(s3_status, Run, TriggerRec("starting", 0), ok)
    /\ trigger' = [trigger EXCEPT !.pc = "start_task"]
    /\ UNCHANGED <<numVars, apiVars, deploy, active_runs, jobs, bucket, sqs, worker,
                   tracker, other_task, now, solve_resp, stop_resp, uploads>>

\* start_ecs_task: the job input is stored, then run_task starts a task with
\* RUN_ID = run_id; None when either call fails or ECS reports failures
\* the input of the task is not stored
JobsUntouched(stored, run_id, put_ok) == stored

\* start_ecs_task: the put of jobs/<run_id>/input.json
StoredJobs(stored, run_id, put_ok) ==
    IF put_ok THEN stored \cup {run_id} ELSE stored

trigger_start_task ==
    /\ trigger.pc = "start_task"
    /\ \E put_ok, run_ok \in BOOLEAN :
        /\ Fault(<<put_ok, put_ok => run_ok>>)
        /\ jobs' = StoredJobs(jobs, Run, put_ok)
        /\ \/ /\ put_ok /\ run_ok
              /\ \E w \in DOMAIN worker :
                    /\ worker[w].pc = "off"
                    /\ worker' = [worker EXCEPT ![w] =
                                     [IdleWorker("boot") EXCEPT !.task_run_id = Run]]
              /\ trigger' = [pc |-> "final", task_arn |-> TRUE]
           \/ /\ ~(put_ok /\ run_ok) \/ \A w \in DOMAIN worker : worker[w].pc # "off"
              /\ trigger' = [pc |-> "final", task_arn |-> FALSE]
              /\ UNCHANGED worker
    /\ UNCHANGED <<numVars, apiVars, deploy, s3_status, active_runs, bucket, sqs, tracker,
                   other_task, now, solve_resp, stop_resp, uploads>>

\* "running" when a task ARN came back, "failed" otherwise; the handler then
\* returns 200 and the event source deletes the message
trigger_final ==
    /\ trigger.pc = "final"
    /\ \E ok \in BOOLEAN :
        /\ Fault(<<ok>>)
        /\ s3_status' = PutStatus(s3_status, Run,
                            TriggerRec(IF trigger.task_arn THEN "running" ELSE "failed", 0),
                            ok)
    /\ sqs' = Deleted(0)
    /\ trigger' = [trigger EXCEPT !.pc = "idle"]
    /\ UNCHANGED <<numVars, apiVars, deploy, active_runs, jobs, bucket, worker, tracker,
                   other_task, now, solve_resp, stop_resp, uploads>>

(***************************************************************************)
(* solver_worker_lambda.py: lambda_handler, process_solver_task,           *)
(* upload_results_to_s3.  It writes no status record.                      *)
(***************************************************************************)
\* the Lambda event source hands an invocation the job message
sqs_invoke(w) ==
    /\ deploy = "sqs_lambda"
    /\ worker[w].pc = "off"
    /\ sqs.state = "visible"
    /\ sqs' = Received(w)
    /\ worker' = [worker EXCEPT ![w] =
                     IdleWorker(IF HasJob("case") THEN "task" ELSE "l_return")]
    /\ UNCHANGED <<numVars, apiVars, deploy, s3_status, active_runs, jobs, bucket, tracker,
                   trigger, other_task, now, faults, solve_resp, stop_resp, uploads>>

\* process_solver_task: the Solver returns or raises; the handler logs an
\* exception and goes on to the next record
process_solver_task(w) ==
    /\ worker[w].pc = "task"
    /\ \/ \E n \in 0..MaxFiles, exists \in BOOLEAN :
            /\ Fault(<<exists>>)
            /\ worker' = [worker EXCEPT ![w].pc = "l_alloc", ![w].outcome = "ok",
                                        ![w].nfiles = n, ![w].out_exists = exists]
       \/ /\ worker' = [worker EXCEPT ![w].pc = "l_return", ![w].outcome = "raised"]
          /\ UNCHANGED faults
    /\ UNCHANGED <<numVars, apiVars, deploy, s3_status, active_runs, jobs, bucket, sqs,
                   tracker, trigger, other_task, now, solve_resp, stop_resp, uploads>>

\* upload_results_to_s3 up to the os.path.exists test
sqs_upload_alloc(w) ==
    /\ worker[w].pc = "l_alloc"
    /\ \E ok \in BOOLEAN :
        /\ Fault(<<ok>>)
        /\ LET result_num  == IF ok THEN get_next_result_number_sqs(CommonPrefixes)
                              ELSE Timestamp(now)
               folder_name == FolderName(result_num)
           IN  IF worker[w].out_exists
               THEN /\ worker' = [worker EXCEPT ![w].pc = "l_upload",
                                                ![w].folder = folder_name, ![w].upl = 0]
                    /\ UNCHANGED uploads
               ELSE /\ worker' = [worker EXCEPT ![w].pc = "l_return",
                                                ![w].folder = folder_name]
                    /\ uploads' = Append(uploads, folder_name)
    /\ UNCHANGED <<numVars, apiVars, deploy, s3_status, active_runs, jobs, bucket, sqs,
                   tracker, trigger, other_task, now, solve_resp, stop_resp>>

\* the put of the next file; a failure is logged and skipped
sqs_upload_file(w) ==
    /\ worker[w].pc = "l_upload"
    /\ worker[w].upl < worker[w].nfiles
    /\ \E ok \in BOOLEAN :
        /\ Fault(<<ok>>)
        /\ bucket' = IF ok THEN bucket \cup {Key(worker[w].folder, OutFile(worker[w].upl + 1))}
                     ELSE bucket
    /\ worker' = [worker EXCEPT ![w].upl = worker[w].upl + 1]
    /\ UNCHANGED <<numVars, apiVars, deploy, s3_status, active_runs, jobs, sqs, tracker,
                   trigger, other_task, now, solve_resp, stop_resp, uploads>>

\* after the last file the folder name is returned; no metadata.json is put
sqs_upload_done(w) ==
    /\ worker[w].pc = "l_upload"
    /\ worker[w].upl = worker[w].nfiles
    /\ uploads' = Append(uploads, worker[w].folder)
    /\ worker' = [worker EXCEPT ![w].pc = "l_return"]
    /\ UNCHANGED <<numVars, apiVars, deploy, s3_status, active_runs, jobs, bucket, sqs,
                   tracker, trigger, other_task, now, faults, solve_resp, stop_resp>>

\* the handler returns 200 and the event source deletes the message
sqs_return(w) ==
    /\ worker[w].pc = "l_return"
    /\ sqs' = Deleted(w)
    /\ worker' = [worker EXCEPT ![w] = IdleWorker("off")]
    /\ UNCHANGED <<numVars, apiVars, deploy, s3_status, active_runs, jobs, bucket, tracker,
                   trigger, other_task, now, faults, solve_resp, stop_resp, uploads>>

(***************************************************************************)
(* CancellationController: lambda_handler.py stop_solver(run_id).          *)
(***************************************************************************)
\* the workers list_tasks(desiredStatus='RUNNING') returns: the polling
\* service's tasks, or the tasks the trigger started that were not stopped
RunningWorkers ==
    IF deploy = "ecs_poll" THEN DOMAIN worker
    ELSE IF deploy = "ecs_trigger"
    THEN {w \in DOMAIN worker : worker[w].pc # "off" /\ ~worker[w].killed}
    ELSE {}

\* every running task, whatever its RUN_ID
\* the RUN_ID that start_ecs_task put in the overrides of worker w's task;
\* the tasks of the polling service have none
TaskRunId(w) == IF deploy = "ecs_trigger" THEN worker[w].task_run_id ELSE "none"

MatchingAny(run_id) == RunningWorkers

\* the workers whose container overrides carry RUN_ID = run_id: only the
\* trigger sets RUN_ID
MatchingWorkers(run_id) == {w \in RunningWorkers : TaskRunId(w) = run_id}

NoTaskRunning == RunningWorkers = {} /\ ~other_task

\* The stop record left out: nothing is stored for the run.
StopRecordMissing == Rec("none", 0, {}, NoFolder)

\* the record of the "no running tasks" and the ECS-error branches
StoppedBareRec == Rec("stopped", 0, {}, NoFolder)

\* the record of the branch that stopped a task
StoppedRec == Rec("stopped", 0, {"progress"}, NoFolder)

stop_solver(run_id) ==
    /\ solve_resp = "queued"
    /\ Len(stop_resp) < MaxStops
    /\ \E list_ok, describe_ok, put_ok, put2_ok \in BOOLEAN,
          stopped_tasks \in SUBSET MatchingWorkers(run_id) :
        LET ecs_err  == ~list_ok \/ (~NoTaskRunning /\ ~describe_ok)
            stopping == IF ecs_err \/ NoTaskRunning THEN {} ELSE stopped_tasks
            put_raised == ~ecs_err /\ ~NoTaskRunning /\ stopping # {} /\ ~put_ok
            fallback == ecs_err \/ put_raised
            nfail    == (IF list_ok THEN 0 ELSE 1)
                        + (IF list_ok /\ ~NoTaskRunning /\ ~describe_ok THEN 1 ELSE 0)
                        + (IF ecs_err \/ NoTaskRunning THEN 0
                           ELSE Cardinality(MatchingWorkers(run_id) \ stopped_tasks))
                        + (IF ~ecs_err /\ (NoTaskRunning \/ stopping # {}) /\ ~put_ok
                           THEN 1 ELSE 0)
                        + (IF fallback /\ ~put2_ok THEN 1 ELSE 0)
        IN  /\ faults + nfail <= MaxFaults
            /\ faults' = faults + nfail
            /\ \/ list_ok \/ describe_ok       \* unused outcomes are fixed
            /\ (ecs_err \/ NoTaskRunning) => stopped_tasks = MatchingWorkers(run_id)
            /\ (~fallback) => put2_ok
            /\ (ecs_err \/ (~NoTaskRunning /\ stopping = {})) => put_ok
            /\ worker' = [w \in DOMAIN worker |->
                            IF w \in stopping THEN [worker[w] EXCEPT !.killed = TRUE]
                            ELSE worker[w]]
            /\ s3_status' =
                 IF fallback THEN PutStatus(s3_status, run_id, StoppedBareRec, put2_ok)
                 ELSE IF NoTaskRunning THEN PutStatus(s3_status, run_id, StoppedBareRec, put_ok)
                 ELSE IF stopping # {} THEN PutStatus(s3_status, run_id, StoppedRec, put_ok)
                 ELSE s3_status
            /\ stop_resp' = Append(stop_resp,
                 IF fallback THEN "stopped_or_completing"
                 ELSE IF NoTaskRunning THEN "no_task"
                 ELSE IF stopping # {} THEN "stopped"
                 ELSE "not_found")
    /\ UNCHANGED <<numVars, apiVars, deploy, active_runs, jobs, bucket, sqs, tracker,
                   trigger, other_task, now, solve_resp, uploads>>

(***************************************************************************)
(* The system.                                                             *)
(***************************************************************************)
WorkerStep(w) ==
    \/ poll_receive(w)
    \/ job_start(w)
    \/ solve_call(w)
    \/ tracker_stop(w)
    \/ upload_alloc(w)
    \/ upload_file(w)
    \/ upload_metadata(w)
    \/ mark_completed(w)
    \/ mark_failed(w)
    \/ delete_message(w)
    \/ single_run_boot(w)
    \/ single_run_exit(w)
    \/ task_killed(w)
    \/ tracker_check(w)
    \/ tracker_write(w)
    \/ sqs_invoke(w)
    \/ process_solver_task(w)
    \/ sqs_upload_alloc(w)
    \/ sqs_upload_file(w)
    \/ sqs_upload_done(w)
    \/ sqs_return(w)

Next ==
    \/ solve
    \/ Redeliver
    \/ Tick
    \/ trigger_invoke
    \/ trigger_starting
    \/ trigger_start_task
    \/ trigger_final
    \/ stop_solver(Run)
    \/ \E w \in Workers : WorkerStep(w)

Spec == Init /\ [][Next]_vars

\* the steps the deployed code takes on its own once a message is there
TriggerStep ==
    \/ trigger_invoke
    \/ trigger_starting
    \/ trigger_start_task
    \/ trigger_final

\* the queue delivers, and the consumers, the trigger and the Solver go on
FairSpec ==
    /\ Spec
    /\ WF_vars(TriggerStep)
    /\ \A w \in Workers : WF_vars(WorkerStep(w))

InitNum ==
    /\ prefixes \in SUBSET NameUniverse
    /\ api = "lambda_handler"
    /\ numbered = NotCalled
    /\ deploy = "ecs_poll"
    /\ bucket = {}
    /\ other_task = FALSE
    /\ worker = [w \in Workers |-> IdleWorker("poll")]
    /\ PipelineInit

\* every component lists the same store and allocates
AllocateAll ==
    /\ ~numbered.called
    /\ numbered' = [called |-> TRUE,
                    api    |-> get_next_result_number_api(prefixes),
                    ecs    |-> get_next_result_number_ecs(prefixes),
                    sqs    |-> get_next_result_number_sqs(prefixes),
                    worker |-> get_next_result_number_worker(prefixes)]
    /\ UNCHANGED <<prefixes, deploy, s3_status, active_runs, jobs, bucket, sqs,
                   worker, tracker, trigger, other_task, now, faults, solve_resp,
                   stop_resp, uploads, apiVars>>

\* list_result_folders over the same store; a folder whose metadata cannot be
\* read is listed with default values
list_result_folders ==
    /\ storage_resp.op = "none"
    /\ storage_resp' = [op |-> "list", code |-> 200, body |-> {"folders"},
                        folders |-> ListedFolders(prefixes), deleted |-> 0]
    /\ UNCHANGED <<numVars, api, status_resp, event, deploy, s3_status, active_runs, jobs,
                   bucket, sqs, worker, tracker, trigger, other_task, now, faults,
                   solve_resp, stop_resp, uploads>>

NextNum == AllocateAll \/ list_result_folders

SpecNum == InitNum /\ [][NextNum]_vars

(***************************************************************************)
(* Two ECS workers whose Solver calls have returned upload at once (an ECS  *)
(* service with two tasks, or two tasks started by the trigger).            *)
(***************************************************************************)
MaxRacers == 2       \* worker processes uploading at once

Racers == 1..MaxRacers

\* a worker at the call of upload_results_to_s3, n files in its output directory
ReadyToUpload(n) == [IdleWorker("alloc") EXCEPT !.outcome = "ok", !.nfiles = n]

InitRace ==
    /\ prefixes = {}
    /\ api = "lambda_handler"
    /\ numbered = NotCalled
    /\ deploy = "ecs_poll"
    /\ bucket \in {{}, OldBucket}
    /\ other_task = FALSE
    /\ worker \in [Racers -> {ReadyToUpload(n) : n \in 0..MaxFiles}]
    /\ PipelineInit

NextRace ==
    \E w \in Racers :
        \/ upload_alloc(w)
        \/ upload_file(w)
        \/ upload_metadata(w)

SpecRace == InitRace /\ [][NextRace]_vars

(***************************************************************************)
(* The HTTP API in front of the polling ECS worker: either dispatcher       *)
(* module, the client polling get_status while the worker runs the job.     *)
(***************************************************************************)
Dispatchers == {"lambda_handler", "lambda_handler_sqs"}

\* the folders a client asks to delete
FolderArgs == {FolderName(1), FolderName(2)}

\* the keys list_objects_v2(Prefix=f"{folder_name}/") returns
Contents(folder_name) == {k \in bucket : k[1] = folder_name}

\* the answer of a delete request: the fields of its body, the keys it removed
DeleteResponse(code, gone) ==
    [op |-> "delete", code |-> code,
     body |-> IF code = 200 THEN {"status", "folder"} ELSE {"detail"},
     folders |-> <<>>, deleted |-> Cardinality(gone)]

\* the listing and the delete_object loop of both delete handlers: gone is
\* what the loop removed before a delete_object raised, all keys if none did
DeleteLoop(folder_name, list_ok, gone, code_if_empty) ==
    LET contents == Contents(folder_name)
        reached  == list_ok /\ contents # {}
    IN  /\ Fault(<<list_ok, reached => gone = contents>>)
        /\ gone \subseteq contents
        /\ ~reached => gone = {}
        /\ bucket' = bucket \ gone
        /\ storage_resp' =
             IF ~list_ok THEN DeleteResponse(500, gone)
             ELSE IF contents = {} THEN DeleteResponse(code_if_empty, gone)
             ELSE IF gone = contents THEN DeleteResponse(200, gone)
             ELSE DeleteResponse(500, gone)

\* lambda_handler.delete_folder: the HTTPException(404) of an empty listing is
\* raised inside the try and caught by its except Exception, which answers 500
delete_folder(folder_name) ==
    /\ api = "lambda_handler"
    /\ storage_resp.op = "none"
    /\ \E list_ok \in BOOLEAN, gone \in SUBSET Contents(folder_name) :
          DeleteLoop(folder_name, list_ok, gone, 500)
    /\ UNCHANGED <<numVars, api, status_resp, event, deploy, s3_status, active_runs, jobs, sqs,
                   worker, tracker, trigger, other_task, now, solve_resp, stop_resp,
                   uploads>>

\* lambda_handler_sqs.delete_results: except HTTPException: raise keeps the 404
delete_results(folder_name) ==
    /\ api = "lambda_handler_sqs"
    /\ storage_resp.op = "none"
    /\ \E list_ok \in BOOLEAN, gone \in SUBSET Contents(folder_name) :
          DeleteLoop(folder_name, list_ok, gone, 404)
    /\ UNCHANGED <<numVars, api, status_resp, event, deploy, s3_status, active_runs, jobs, sqs,
                   worker, tracker, trigger, other_task, now, solve_resp, stop_resp,
                   uploads>>

InitApi ==
    /\ prefixes = {}
    /\ numbered = NotCalled
    /\ api \in Dispatchers
    /\ deploy = "ecs_poll"
    /\ bucket = {}
    /\ other_task = FALSE
    /\ worker = [w \in Workers |-> IdleWorker("poll")]
    /\ PipelineInit

EcsPollStep(w) ==
    \/ poll_receive(w)
    \/ job_start(w)
    \/ solve_call(w)
    \/ tracker_stop(w)
    \/ upload_alloc(w)
    \/ upload_file(w)
    \/ upload_metadata(w)
    \/ mark_completed(w)
    \/ mark_failed(w)
    \/ delete_message(w)
    \/ tracker_check(w)
    \/ tracker_write(w)

NextApi ==
    \/ solve
    \/ solve_sqs
    \/ \E run_id \in RunIds : get_status(run_id) \/ get_status_sqs(run_id)
    \/ \E folder_name \in FolderArgs :
          delete_folder(folder_name) \/ delete_results(folder_name)
    \/ Tick
    \/ \E w \in Workers : EcsPollStep(w)

SpecApi == InitApi /\ [][NextApi]_vars

(***************************************************************************)
(* lambda_worker_handler.py: the SQS handler, run_optimization, its         *)
(* ProgressUpdater thread and upload_results_to_s3.                         *)
(***************************************************************************)
ResultJson == <<"result.json", 0>>

\* the keys of the status dict run_optimization starts with
LwKeys == {"progress", "created_at"}

\* an invocation of the handler: the worker record and the local status dict
LwIdle(pc) ==
    [pc |-> pc, outcome |-> "none", folder |-> NoFolder, nfiles |-> 0,
     out_exists |-> TRUE, upl |-> 0, terms |-> 0, killed |-> FALSE,
     run_id |-> Run, task_run_id |-> Run, st |-> NoRec]

\* the store_status_to_s3 calls of run_optimization while status is
\* "processing": the progress each stores and the step that follows it
LwPuts ==
    [lw_put0  |-> [progress |-> 0,  next |-> "lw_put2"],
     lw_put2  |-> [progress |-> 2,  next |-> "lw_import"],
     lw_put10 |-> [progress |-> 10, next |-> "lw_put20"],
     lw_put20 |-> [progress |-> 20, next |-> "lw_solve"],
     lw_put70 |-> [progress |-> 70, next |-> "lw_put90"],
     lw_put90 |-> [progress |-> 90, next |-> "lw_alloc"],
     lw_put95 |-> [progress |-> 95, next |-> "lw_put100"]]

\* ProgressUpdater(run_id, start_progress=20, end_progress=70, duration_estimate=18.0)
UpdaterStart == 20
UpdaterEnd == 70
UpdaterDuration == 18

\* the linear estimate with no cap
UpdaterLinear(elapsed) ==
    UpdaterStart
      + (((UpdaterEnd - UpdaterStart) * elapsed) \div Seconds(UpdaterDuration))

\* current_progress of ProgressUpdater._update_loop after elapsed ticks
UpdaterProgress(elapsed) ==
    IF elapsed >= Seconds(UpdaterDuration)
    THEN Min(UpdaterEnd - 1, UpdaterStart + (((UpdaterEnd - UpdaterStart) * 95) \div 100))
    ELSE UpdaterStart
           + (((UpdaterEnd - UpdaterStart) * elapsed) \div Seconds(UpdaterDuration))

\* an event whose record body carries case_data, the key lambda_handler reads
\* (the dispatchers of the repository send "case")
direct_event ==
    /\ deploy = "lambda_worker"
    /\ solve_resp = "none"
    /\ sqs.state = "none"
    /\ sqs' = [state |-> "visible", holder |-> 0, deliveries |-> 0,
               keys |-> {"run_id", "case_data"}]
    /\ solve_resp' = "direct"
    /\ UNCHANGED <<numVars, apiVars, deploy, s3_status, active_runs, jobs, bucket, worker,
                   tracker, trigger, other_task, now, faults, stop_resp, uploads>>

\* lambda_handler: a record without run_id or case_data is logged and skipped
lw_invoke(w) ==
    /\ deploy = "lambda_worker"
    /\ worker[w].pc = "off"
    /\ sqs.state = "visible"
    /\ sqs' = Received(w)
    /\ worker' = [worker EXCEPT ![w] =
                     IF HasJob("case_data")
                     THEN [LwIdle("lw_put0") EXCEPT !.st = Rec("processing", 0, LwKeys, NoFolder)]
                     ELSE LwIdle("lw_return")]
    /\ UNCHANGED <<numVars, apiVars, deploy, s3_status, active_runs, jobs, bucket, tracker,
                   trigger, other_task, now, faults, solve_resp, stop_resp, uploads>>

\* status["progress"] = p; store_status_to_s3(run_id, status), which raises
\* when the put fails; the ProgressUpdater starts after the store of 20
lw_store(w) ==
    /\ worker[w].pc \in DOMAIN LwPuts
    /\ LET put == LwPuts[worker[w].pc]
           st  == [worker[w].st EXCEPT !.progress = put.progress]
       IN  \E ok \in BOOLEAN :
            /\ Fault(<<ok>>)
            /\ s3_status' = PutStatus(s3_status, Run, st, ok)
            /\ worker' = [worker EXCEPT ![w].st = st,
                                        ![w].pc = IF ok THEN put.next ELSE "lw_except"]
            /\ tracker' = IF ok /\ put.next = "lw_solve"
                          THEN [tracker EXCEPT ![w] =
                                  [pc |-> "lw_loop", stop_flag |-> FALSE,
                                   last_progress |-> UpdaterStart, start_time |-> now,
                                   pending |-> 0]]
                          ELSE tracker
    /\ UNCHANGED <<numVars, apiVars, deploy, active_runs, jobs, bucket, sqs, trigger,
                   other_task, now, solve_resp, stop_resp, uploads>>

\* import solver_core_real
lw_import(w) ==
    /\ worker[w].pc = "lw_import"
    /\ \E ok \in BOOLEAN :
        worker' = [worker EXCEPT ![w].pc = IF ok THEN "lw_put10" ELSE "lw_import_failed"]
    /\ UNCHANGED <<numVars, apiVars, deploy, s3_status, active_runs, jobs, bucket, sqs,
                   tracker, trigger, other_task, now, faults, solve_resp, stop_resp,
                   uploads>>

\* solver_core_real.Solve_test_case_lambda returns or raises
lw_solve(w) ==
    /\ worker[w].pc = "lw_solve"
    /\ \/ \E n \in 0..MaxFiles, exists \in BOOLEAN :
            /\ Fault(<<exists>>)
            /\ worker' = [worker EXCEPT ![w].pc = "lw_stop", ![w].outcome = "ok",
                                        ![w].nfiles = n, ![w].out_exists = exists]
       \/ /\ worker' = [worker EXCEPT ![w].pc = "lw_stop", ![w].outcome = "raised"]
          /\ UNCHANGED faults
    /\ UNCHANGED <<numVars, apiVars, deploy, s3_status, active_runs, jobs, bucket, sqs,
                   tracker, trigger, other_task, now, solve_resp, stop_resp, uploads>>

\* finally: progress_updater.stop(): the flag is set, join(timeout=2.0) returns
lw_stop(w) ==
    /\ worker[w].pc = "lw_stop"
    /\ tracker' = [tracker EXCEPT ![w].stop_flag = TRUE]
    /\ worker' = [worker EXCEPT ![w].pc =
                     IF worker[w].outcome = "ok" THEN "lw_put70" ELSE "lw_except"]
    /\ UNCHANGED <<numVars, apiVars, deploy, s3_status, active_runs, jobs, bucket, sqs,
                   trigger, other_task, now, faults, solve_resp, stop_resp, uploads>>

\* upload_results_to_s3: get_next_result_number (1 when the listing fails),
\* then the put of result.json, whose failure is raised
lw_upload_alloc(w) ==
    /\ worker[w].pc = "lw_alloc"
    /\ \E list_ok \in BOOLEAN, put_ok \in BOOLEAN :
        /\ Fault(<<list_ok, put_ok>>)
        /\ LET result_num  == IF list_ok THEN get_next_result_number_worker(CommonPrefixes)
                              ELSE 1
               folder_name == FolderName(result_num)
           IN  IF put_ok
               THEN /\ bucket' = bucket \cup {Key(folder_name, ResultJson)}
                    /\ worker' = [worker EXCEPT ![w].pc = "lw_upload",
                                                ![w].folder = folder_name, ![w].upl = 0]
               ELSE /\ worker' = [worker EXCEPT ![w].pc = "lw_except"]
                    /\ UNCHANGED bucket
    /\ UNCHANGED <<numVars, apiVars, deploy, s3_status, active_runs, jobs, sqs, tracker,
                   trigger, other_task, now, solve_resp, stop_resp, uploads>>

\* the put of the next file of output_dir; a failure is logged and skipped
lw_upload_file(w) ==
    /\ worker[w].pc = "lw_upload"
    /\ worker[w].out_exists
    /\ worker[w].upl < worker[w].nfiles
    /\ \E ok \in BOOLEAN :
        /\ Fault(<<ok>>)
        /\ bucket' = IF ok THEN bucket \cup {Key(worker[w].folder, OutFile(worker[w].upl + 1))}
                     ELSE bucket
    /\ worker' = [worker EXCEPT ![w].upl = worker[w].upl + 1]
    /\ UNCHANGED <<numVars, apiVars, deploy, s3_status, active_runs, jobs, sqs, tracker,
                   trigger, other_task, now, solve_resp, stop_resp, uploads>>

\* the put of metadata.json ends the upload; its failure is raised
lw_upload_metadata(w) ==
    /\ worker[w].pc = "lw_upload"
    /\ ~worker[w].out_exists \/ worker[w].upl = worker[w].nfiles
    /\ \E ok \in BOOLEAN :
        /\ Fault(<<ok>>)
        /\ IF ok
           THEN /\ bucket' = bucket \cup {Key(worker[w].folder, MetadataJson)}
                /\ uploads' = Append(uploads, worker[w].folder)
                /\ worker' = [worker EXCEPT ![w].pc = "lw_put95"]
           ELSE /\ worker' = [worker EXCEPT ![w].pc = "lw_except"]
                /\ UNCHANGED <<bucket, uploads>>
    /\ UNCHANGED <<numVars, apiVars, deploy, s3_status, active_runs, jobs, sqs, tracker,
                   trigger, other_task, now, solve_resp, stop_resp>>

\* status.update(completed, 100, output_directory, result); store_status_to_s3
lw_complete(w) ==
    /\ worker[w].pc = "lw_put100"
    /\ LET st == Rec("completed", 100,
                     worker[w].st.keys \cup {"output_directory", "result", "completed_at"},
                     worker[w].folder)
       IN  \E ok \in BOOLEAN :
            /\ Fault(<<ok>>)
            /\ s3_status' = PutStatus(s3_status, Run, st, ok)
            /\ worker' = [worker EXCEPT ![w].st = st,
                                        ![w].pc = IF ok THEN "lw_return" ELSE "lw_except",
                                        ![w].terms = worker[w].terms + (IF ok THEN 1 ELSE 0)]
    /\ UNCHANGED <<numVars, apiVars, deploy, active_runs, jobs, bucket, sqs, tracker,
                   trigger, other_task, now, solve_resp, stop_resp, uploads>>

\* status.update(failed, -1, error); store_status_to_s3: the except branch of
\* run_optimization, and the branch of a failed import, whose raise is caught
\* by the except branch
lw_fail(w) ==
    /\ worker[w].pc \in {"lw_except", "lw_import_failed"}
    /\ LET st == [worker[w].st EXCEPT !.status = "failed", !.progress = -1,
                                      !.keys = @ \cup {"error", "completed_at"}]
       IN  \E ok \in BOOLEAN :
            /\ Fault(<<ok>>)
            /\ s3_status' = PutStatus(s3_status, Run, st, ok)
            /\ worker' = [worker EXCEPT ![w].st = st,
                                        ![w].pc = IF ~ok /\ worker[w].pc = "lw_import_failed"
                                                  THEN "lw_except" ELSE "lw_return",
                                        ![w].terms = worker[w].terms + (IF ok THEN 1 ELSE 0)]
    /\ UNCHANGED <<numVars, apiVars, deploy, active_runs, jobs, bucket, sqs, tracker,
                   trigger, other_task, now, solve_resp, stop_resp, uploads>>

\* lambda_handler returns 200 and the event source deletes the message
lw_return(w) ==
    /\ worker[w].pc = "lw_return"
    /\ sqs' = Deleted(w)
    /\ worker' = [worker EXCEPT ![w] = [worker[w] EXCEPT !.pc = "lw_done"]]
    /\ tracker' = [tracker EXCEPT ![w] = NoTracker]
    /\ UNCHANGED <<numVars, apiVars, deploy, s3_status, active_runs, jobs, bucket, trigger,
                   other_task, now, faults, solve_resp, stop_resp, uploads>>

\* ProgressUpdater._update_loop: the loop test and the progress estimate
lw_updater_check_at(w, elapsed) ==
    /\ tracker[w].pc = "lw_loop"
    /\ tracker' = [tracker EXCEPT ![w] =
                     IF tracker[w].stop_flag
                     THEN [NoTracker EXCEPT !.pc = "done"]
                     ELSE [tracker[w] EXCEPT !.pc = "lw_write",
                                             !.pending = UpdaterProgress(elapsed)]]
    /\ UNCHANGED <<numVars, apiVars, deploy, s3_status, active_runs, jobs, bucket, sqs,
                   worker, trigger, other_task, now, faults, solve_resp,
                   stop_resp, uploads>>

\* the pass of the loop at the pipeline's clock
lw_updater_check(w) ==
    lw_updater_check_at(w, Seconds((now - tracker[w].start_time) * TimeUnit))

\* ProgressUpdater._update_loop: the put of status "running", its failure
\* logged and dropped, then stop_flag.wait(2.0)
lw_updater_write(w) ==
    /\ tracker[w].pc = "lw_write"
    /\ \E ok \in BOOLEAN :
        /\ Fault(<<ok>>)
        /\ s3_status' = PutStatus(s3_status, Run,
                                  Rec("running", tracker[w].pending, {"progress", "started_at"},
                                      NoFolder),
                                  ok)
    /\ tracker' = [tracker EXCEPT ![w].pc = "lw_loop",
                                  ![w].last_progress = tracker[w].pending]
    /\ UNCHANGED <<numVars, apiVars, deploy, active_runs, jobs, bucket, sqs, worker,
                   trigger, other_task, now, solve_resp, stop_resp, uploads>>

(***************************************************************************)
(* The Lambda worker of lambda_worker_handler.py behind the queue that     *)
(* lambda_handler.py's solve fills.                                         *)
(***************************************************************************)
InitWorker ==
    /\ PipelineInit
    /\ api = "lambda_handler"
    /\ deploy = "lambda_worker"
    /\ worker = [w \in Workers |-> LwIdle("off")]
    /\ bucket \in {{}, OldBucket}
    /\ prefixes = {}
    /\ numbered = NotCalled
    /\ other_task = FALSE

LwStep(w) ==
    \/ lw_invoke(w)
    \/ lw_store(w)
    \/ lw_import(w)
    \/ lw_solve(w)
    \/ lw_stop(w)
    \/ lw_upload_alloc(w)
    \/ lw_upload_file(w)
    \/ lw_upload_metadata(w)
    \/ lw_complete(w)
    \/ lw_fail(w)
    \/ lw_return(w)
    \/ lw_updater_check(w)
    \/ lw_updater_write(w)

NextWorker ==
    \/ solve
    \/ direct_event
    \/ Tick
    \/ \E w \in Workers : LwStep(w)

SpecWorker == InitWorker /\ [][NextWorker]_vars

(***************************************************************************)
(* A worker's job with its progress thread, the thread reading the clock   *)
(* at sampled times: solver_worker_ecs.process_solver_job with             *)
(* SmoothProgressTracker, lambda_worker_handler.run_optimization with      *)
(* ProgressUpdater.                                                        *)
(***************************************************************************)
MaxSeconds == 20     \* every second up to here is a clock reading
ElapsedStep == 900   \* seconds between the later clock readings
MaxSamples == 13     \* later clock readings

\* the seconds at which SmoothProgressTracker's curve changes band or ends
BandLimits == {60, 300, 1800, 3600, 7200, 10800}

\* the clock readings told apart: the start, and every tick of the second
\* before a band limit or the updater's duration estimate, up to the tick
\* after it
ClockReadings ==
    {0} \cup {Seconds(b) + d : b \in BandLimits \cup {UpdaterDuration},
                              d \in (0 - TicksPerSecond)..1}

\* the values of time.time() - start_time a pass of the loop may read
ElapsedSamples ==
    {Seconds(e) : e \in 0..MaxSeconds}
      \cup {Seconds(k * ElapsedStep) : k \in 1..MaxSamples}
      \cup ClockReadings

InitProgress ==
    /\ PipelineInit
    /\ api = "lambda_handler"
    /\ prefixes = {}
    /\ numbered = NotCalled
    /\ other_task = FALSE
    /\ bucket = {}
    /\ deploy \in {"ecs_poll", "lambda_worker"}
    /\ worker = [w \in Workers |->
                   IF deploy = "ecs_poll" THEN IdleWorker("job")
                   ELSE [LwIdle("lw_put20") EXCEPT
                           !.st = Rec("processing", 10, LwKeys, NoFolder)]]

\* the steps of the job while its progress thread runs, and the thread's writes
SolveStep(w) ==
    \/ job_start(w)
    \/ solve_call(w)
    \/ tracker_stop(w)
    \/ tracker_write(w)
    \/ lw_store(w)
    \/ lw_solve(w)
    \/ lw_stop(w)
    \/ lw_updater_write(w)

ProgressStep(w) ==
    \/ SolveStep(w)
    \/ upload_alloc(w)
    \/ upload_file(w)
    \/ upload_metadata(w)
    \/ mark_completed(w)
    \/ mark_failed(w)
    \/ lw_upload_alloc(w)
    \/ lw_upload_file(w)
    \/ lw_upload_metadata(w)
    \/ lw_complete(w)
    \/ lw_fail(w)
    \/ \E elapsed \in ElapsedSamples :
          tracker_check_at(w, elapsed) \/ lw_updater_check_at(w, elapsed)

NextProgress == \E w \in Workers : ProgressStep(w)

SpecProgress == InitProgress /\ [][NextProgress]_vars

(***************************************************************************)
(* The solve phase of the same job with a clock that only moves forward:   *)
(* the variable now counts ticks here, and each pass of a progress loop    *)
(* reads time.time() - self.start_time from it.                            *)
(***************************************************************************)
\* time.sleep(10) / stop_flag.wait(2.0) and the latency of the puts: the
\* clock moves to a later reading while a progress thread is alive
time_passes ==
    /\ \E w \in DOMAIN tracker :
          tracker[w].pc \in {"loop", "write", "lw_loop", "lw_write"}
    /\ \E t \in ClockReadings : t > now /\ now' = t
    /\ UNCHANGED <<numVars, apiVars, deploy, s3_status, active_runs, jobs, bucket, sqs,
                   worker, tracker, trigger, other_task, faults, solve_resp,
                   stop_resp, uploads>>

ClockStep(w) ==
    \/ SolveStep(w)
    \/ tracker_check_at(w, now - tracker[w].start_time)
    \/ lw_updater_check_at(w, now - tracker[w].start_time)

NextClock == time_passes \/ \E w \in Workers : ClockStep(w)

SpecClock == InitProgress /\ [][NextClock]_vars

(***************************************************************************)
(* update_progress of lambda_handler.py (and AWS_LAMBDA_UPDATED_CODE.py)   *)
(* over the entries active_runs can hold.                                  *)
(***************************************************************************)
\* the progress values run_optimization passes to update_progress
ProgressArgs == {2, 10, 20, 70, 90, 95}

\* the keys of the entry solve creates
RunKeys == {"progress", "created_at"}

\* the entries of active_runs: none, queued by solve, running inside
\* run_optimization, completed, failed by run_optimization (progress -1) and
\* failed by solve when the send failed (progress 0)
RunEntries ==
    {NoRec, Rec("queued", 0, RunKeys, NoFolder)}
      \cup {Rec("running", p, RunKeys, NoFolder) : p \in {0} \cup ProgressArgs}
      \cup {Rec("completed", 100, RunKeys \cup {"result", "output_directory", "completed_at"},
                FolderName(1)),
            Rec("failed", 0 - 1, RunKeys \cup {"error", "completed_at"}, NoFolder),
            Rec("failed", 0, RunKeys, NoFolder)}

update_progress(run_id, progress) ==
    /\ active_runs' =
         IF active_runs[run_id] # NoRec /\ progress > active_runs[run_id].progress
         THEN [active_runs EXCEPT ![run_id].progress = progress]
         ELSE active_runs
    /\ storage_resp' = [NoStorageResponse EXCEPT !.op = "update_progress"]
    /\ UNCHANGED <<numVars, api, status_resp, event, deploy, s3_status, jobs, bucket, sqs,
                   worker, tracker, trigger, other_task, now, faults, solve_resp,
                   stop_resp, uploads>>

InitUpdate ==
    /\ prefixes = {}
    /\ numbered = NotCalled
    /\ api = "lambda_handler"
    /\ deploy = "ecs_poll"
    /\ bucket = {}
    /\ other_task = FALSE
    /\ worker = [w \in Workers |-> IdleWorker("off")]
    /\ s3_status = [r \in RunIds |-> NoRec]
    /\ active_runs \in [RunIds -> RunEntries]
    /\ jobs = {}
    /\ sqs = [state |-> "none", holder |-> 0, deliveries |-> 0, keys |-> {}]
    /\ tracker = [w \in Workers |-> NoTracker]
    /\ trigger = [pc |-> "idle", task_arn |-> FALSE]
    /\ now = 0
    /\ faults = 0
    /\ solve_resp = "none"
    /\ stop_resp = <<>>
    /\ uploads = <<>>
    /\ status_resp = NoResponse
    /\ storage_resp = NoStorageResponse
    /\ event = NoEvent

NextUpdate == \E run_id \in RunIds, progress \in ProgressArgs : update_progress(run_id, progress)

SpecUpdate == InitUpdate /\ [][NextUpdate]_vars

(***************************************************************************)
(* lambda_handler.py with no SOLVER_QUEUE_URL: solve awaits                *)
(* run_optimization in its own invocation, which keeps the run in          *)
(* active_runs only; the client polls get_status.                          *)
(***************************************************************************)
\* update_progress applied to the entry rec
Progressed(rec, progress) ==
    IF progress > rec.progress THEN [rec EXCEPT !.progress = progress] ELSE rec

\* the entry run_optimization leaves when it fails
FailedEntry(rec) ==
    [rec EXCEPT !.status = "failed", !.progress = 0 - 1,
                !.keys = rec.keys \cup {"error", "completed_at"}]

\* solve up to the first statement of run_optimization: the queued entry and
\* record, then "processing", "running" and update_progress(run_id, 2)
solve_sync ==
    /\ api = "lambda_handler"
    /\ deploy = "sync"
    /\ solve_resp = "none"
    /\ \A w \in Workers : worker[w].pc = "off"
    /\ \E s3_ok \in BOOLEAN :
        /\ Fault(<<s3_ok>>)
        /\ IF s3_ok
           THEN /\ s3_status' = [s3_status EXCEPT ![Run] = QueuedRec]
                /\ active_runs' = [active_runs EXCEPT ![Run] =
                                     Progressed([QueuedRec EXCEPT !.status = "running"], 2)]
                /\ worker' = [worker EXCEPT ![1].pc = "ro_import"]
                /\ UNCHANGED solve_resp
           ELSE /\ active_runs' = [active_runs EXCEPT ![Run] = QueuedRec]
                /\ solve_resp' = "http500"
                /\ UNCHANGED <<s3_status, worker>>
    /\ UNCHANGED <<numVars, apiVars, deploy, jobs, bucket, sqs, tracker, trigger,
                   other_task, now, stop_resp, uploads>>

\* import solver_core_real: its failure ends the run as failed, else
\* update_progress 10 and 20
ro_import(w) ==
    /\ worker[w].pc = "ro_import"
    /\ \E ok \in BOOLEAN :
        /\ active_runs' = [active_runs EXCEPT ![Run] =
                             IF ok THEN Progressed(Progressed(active_runs[Run], 10), 20)
                             ELSE FailedEntry(active_runs[Run])]
        /\ worker' = [worker EXCEPT ![w].pc = IF ok THEN "ro_solve" ELSE "ro_return"]
    /\ UNCHANGED <<numVars, apiVars, deploy, s3_status, jobs, bucket, sqs, tracker,
                   trigger, other_task, now, faults, solve_resp, stop_resp, uploads>>

\* Solve_test_case_lambda: it raises, or returns and update_progress 70 and
\* 90 follow
ro_solve(w) ==
    /\ worker[w].pc = "ro_solve"
    /\ \/ \E n \in 0..MaxFiles, exists \in BOOLEAN :
            /\ worker' = [worker EXCEPT ![w].pc = "ro_alloc", ![w].outcome = "ok",
                                        ![w].nfiles = n, ![w].out_exists = exists]
            /\ active_runs' = [active_runs EXCEPT ![Run] =
                                 Progressed(Progressed(active_runs[Run], 70), 90)]
       \/ /\ worker' = [worker EXCEPT ![w].pc = "ro_except", ![w].outcome = "raised"]
          /\ UNCHANGED active_runs
    /\ UNCHANGED <<numVars, apiVars, deploy, s3_status, jobs, bucket, sqs, tracker,
                   trigger, other_task, now, faults, solve_resp, stop_resp, uploads>>

\* upload_results_to_s3 of lambda_handler.py: the folder name
ro_upload_alloc(w) ==
    /\ worker[w].pc = "ro_alloc"
    /\ \E list_ok \in BOOLEAN :
        /\ Fault(<<list_ok>>)
        /\ worker' = [worker EXCEPT
                        ![w].pc = "ro_upload", ![w].upl = 0,
                        ![w].folder =
                           FolderName(IF list_ok
                                      THEN get_next_result_number_api(CommonPrefixes)
                                      ELSE 1)]
    /\ UNCHANGED <<numVars, apiVars, deploy, s3_status, active_runs, jobs, bucket, sqs,
                   tracker, trigger, other_task, now, solve_resp, stop_resp, uploads>>

\* one put_object of the loop over the output directory; its error leaves
\* upload_results_to_s3 and run_optimization's try
ro_upload_file(w) ==
    /\ worker[w].pc = "ro_upload"
    /\ worker[w].out_exists
    /\ worker[w].upl < worker[w].nfiles
    /\ \E ok \in BOOLEAN :
        /\ Fault(<<ok>>)
        /\ bucket' = IF ok THEN bucket \cup {Key(worker[w].folder, OutFile(worker[w].upl + 1))}
                     ELSE bucket
        /\ worker' = [worker EXCEPT ![w].upl = worker[w].upl + 1,
                                    ![w].pc = IF ok THEN "ro_upload" ELSE "ro_except"]
    /\ UNCHANGED <<numVars, apiVars, deploy, s3_status, active_runs, jobs, sqs, tracker,
                   trigger, other_task, now, solve_resp, stop_resp, uploads>>

\* the put of metadata.json, then update_progress 95 and the completed entry
ro_upload_metadata(w) ==
    /\ worker[w].pc = "ro_upload"
    /\ ~worker[w].out_exists \/ worker[w].upl = worker[w].nfiles
    /\ \E ok \in BOOLEAN :
        /\ Fault(<<ok>>)
        /\ IF ok
           THEN /\ bucket' = bucket \cup {Key(worker[w].folder, MetadataJson)}
                /\ uploads' = Append(uploads, worker[w].folder)
                /\ active_runs' = [active_runs EXCEPT ![Run] =
                      Rec("completed", 100,
                          active_runs[Run].keys
                            \cup {"result", "output_directory", "completed_at"},
                          worker[w].folder)]
                /\ worker' = [worker EXCEPT ![w].pc = "ro_return"]
           ELSE /\ worker' = [worker EXCEPT ![w].pc = "ro_except"]
                /\ UNCHANGED <<bucket, uploads, active_runs>>
    /\ UNCHANGED <<numVars, apiVars, deploy, s3_status, jobs, sqs, tracker, trigger,
                   other_task, now, solve_resp, stop_resp>>

\* the outer except of run_optimization
ro_fail(w) ==
    /\ worker[w].pc = "ro_except"
    /\ active_runs' = [active_runs EXCEPT ![Run] = FailedEntry(active_runs[Run])]
    /\ worker' = [worker EXCEPT ![w].pc = "ro_return"]
    /\ UNCHANGED <<numVars, apiVars, deploy, s3_status, jobs, bucket, sqs, tracker,
                   trigger, other_task, now, faults, solve_resp, stop_resp, uploads>>

\* run_optimization has returned: solve answers run_id with status "queued"
solve_sync_return(w) ==
    /\ worker[w].pc = "ro_return"
    /\ solve_resp' = "queued"
    /\ worker' = [worker EXCEPT ![w].pc = "ro_done"]
    /\ UNCHANGED <<numVars, apiVars, deploy, s3_status, active_runs, jobs, bucket, sqs,
                   tracker, trigger, other_task, now, faults, stop_resp, uploads>>

InitSync ==
    /\ prefixes = {}
    /\ numbered = NotCalled
    /\ api = "lambda_handler"
    /\ deploy = "sync"
    /\ bucket \in {{}, OldBucket}
    /\ other_task = FALSE
    /\ worker = [w \in Workers |-> IdleWorker("off")]
    /\ PipelineInit

SyncStep(w) ==
    \/ ro_import(w)
    \/ ro_solve(w)
    \/ ro_upload_alloc(w)
    \/ ro_upload_file(w)
    \/ ro_upload_metadata(w)
    \/ ro_fail(w)
    \/ solve_sync_return(w)

NextSync ==
    \/ solve_sync
    \/ \E run_id \in RunIds : get_status(run_id)
    \/ \E w \in Workers : SyncStep(w)

\* the invocation runs to its end and the client keeps polling
SpecSync == InitSync /\ [][NextSync]_vars /\ WF_vars(NextSync)

(***************************************************************************)
(* Two runs at once in the trigger deployment: the task of OtherRun has    *)
(* been started by an earlier invocation of the trigger, Run is submitted  *)
(* and served beside it, and the client may stop either run. The AWS calls  *)
(* succeed here; their failures are followed with one run.                 *)
(***************************************************************************)
MaxTasks == 2        \* ECS tasks at once

Tasks == 1..MaxTasks

InitRuns ==
    /\ prefixes = {}
    /\ numbered = NotCalled
    /\ api = "lambda_handler"
    /\ deploy = "ecs_trigger"
    /\ bucket = {}
    /\ other_task = FALSE
    /\ worker = [w \in Tasks |->
                   IF w = MaxTasks
                   THEN [IdleWorker("boot") EXCEPT !.task_run_id = OtherRun]
                   ELSE IdleWorker("off")]
    /\ tracker = [w \in Tasks |-> NoTracker]
    /\ s3_status = [r \in RunIds |->
                      IF r = OtherRun THEN TriggerRec("running", 0) ELSE NoRec]
    /\ active_runs = [r \in RunIds |-> IF r = OtherRun THEN QueuedRec ELSE NoRec]
    /\ jobs = {OtherRun}
    /\ sqs = [state |-> "none", holder |-> 0, deliveries |-> 0, keys |-> {}]
    /\ trigger = [pc |-> "idle", task_arn |-> FALSE]
    /\ now = 0
    /\ faults = MaxFaults    \* no AWS call fails beside the two runs
    /\ solve_resp = "none"
    /\ stop_resp = <<>>
    /\ uploads = <<>>
    /\ status_resp = NoResponse
    /\ storage_resp = NoStorageResponse
    /\ event = NoEvent

TaskStep(w) ==
    \/ single_run_boot(w)
    \/ job_start(w)
    \/ solve_call(w)
    \/ tracker_stop(w)
    \/ upload_alloc(w)
    \/ upload_file(w)
    \/ upload_metadata(w)
    \/ mark_completed(w)
    \/ mark_failed(w)
    \/ single_run_exit(w)
    \/ task_killed(w)
    \/ tracker_check(w)
    \/ tracker_write(w)

NextRuns ==
    \/ solve
    \/ trigger_invoke
    \/ trigger_starting
    \/ trigger_start_task
    \/ trigger_final
    \/ Tick
    \/ \E run_id \in RunIds : stop_solver(run_id)
    \/ \E w \in Tasks : TaskStep(w)

SpecRuns == InitRuns /\ [][NextRuns]_vars

(***************************************************************************)
(* The queue handlers over a batch of records: lambda_handler of           *)
(* lambda_worker_handler.py, of solver_worker_lambda.py and of             *)
(* sqs_ecs_trigger.py. One pass of the for loop is one step and keeps what *)
(* the pass leaves in the store.                                           *)
(***************************************************************************)
MaxRecords == 2      \* records in one event

BatchHandlers == {"lambda_worker_handler", "solver_worker_lambda", "sqs_ecs_trigger"}

\* a record with a job for the handler, without 'body', with a body that is
\* not JSON, with a JSON body that is not an object, without run_id
RecordShapes == {"job", "no_body", "bad_json", "not_object", "no_run_id"}

\* how the work on a job record ends: done, the Solver (or run_task) failed,
\* or the last write of the status failed too
Results == {"completed", "failed", "raised"}

Records == [run_id : RunIds, shape : RecordShapes]

Batches == UNION {[1..n -> Records] : n \in 1..MaxRecords}

\* the exception the body of the loop raises on a record, "none" when it
\* ends or takes its own continue
Raises(handler, shape, result) ==
    IF handler = "lambda_worker_handler"
    THEN CASE shape = "bad_json" -> "JSONDecodeError"
           [] shape = "not_object" -> "AttributeError"
           [] shape = "job" /\ result = "raised" -> "ClientError"
           [] OTHER -> "none"
    ELSE IF handler = "solver_worker_lambda"
    THEN CASE shape = "bad_json" -> "JSONDecodeError"
           [] shape = "not_object" -> "TypeError"
           [] shape \in {"no_body", "no_run_id"} -> "KeyError"
           [] shape = "job" /\ result # "completed" -> "RuntimeError"
           [] OTHER -> "none"
    ELSE CASE shape = "bad_json" -> "JSONDecodeError"
           [] shape = "not_object" -> "AttributeError"
           [] shape = "no_body" -> "KeyError"
           [] OTHER -> "none"

\* the classes above derive from Exception
ExceptionSubclasses ==
    {"JSONDecodeError", "AttributeError", "TypeError", "KeyError", "RuntimeError",
     "ClientError"}

\* a loop that catches json.JSONDecodeError only
CaughtJsonOnly(handler, exc) == exc = "JSONDecodeError"

\* the except clauses around the body of the loop: each handler has
\* "except Exception" there
Caught(handler, exc) == exc \in ExceptionSubclasses

\* the status records after the pass over a job record of run_id
BatchStatus(handler, run_id, result, folder_name) ==
    IF handler = "lambda_worker_handler"
    THEN CASE result = "completed" ->
                PutStatus(s3_status, run_id,
                          Rec("completed", 100,
                              LwKeys \cup {"output_directory", "result", "completed_at"},
                              folder_name), TRUE)
           [] result = "failed" ->
                PutStatus(s3_status, run_id,
                          Rec("failed", 0 - 1, LwKeys \cup {"error", "completed_at"},
                              NoFolder), TRUE)
           [] OTHER -> PutStatus(s3_status, run_id,
                                 Rec("processing", 0, LwKeys, NoFolder), TRUE)
    ELSE IF handler = "sqs_ecs_trigger"
    THEN PutStatus(s3_status, run_id,
                   TriggerRec(IF result = "completed" THEN "running" ELSE "failed", 0),
                   TRUE)
    ELSE s3_status

\* the objects a finished upload of the pass leaves under folder_name
BatchObjects(handler, folder_name) ==
    IF handler = "lambda_worker_handler"
    THEN {Key(folder_name, ResultJson), Key(folder_name, MetadataJson)}
    ELSE IF handler = "solver_worker_lambda" THEN {Key(folder_name, OutFile(1))}
    ELSE {}

\* one pass of "for record in records"
handle_record ==
    /\ event.handler \in BatchHandlers
    /\ event.code = 0
    /\ event.next <= Len(event.records)
    /\ LET record  == event.records[event.next]
           handler == event.handler
           is_job  == record.shape = "job"
       IN  \E result \in Results :
            LET exc     == Raises(handler, record.shape, result)
                escapes == exc # "none" /\ ~Caught(handler, exc)
                folder_name ==
                    FolderName(IF handler = "lambda_worker_handler"
                               THEN get_next_result_number_worker(CommonPrefixes)
                               ELSE get_next_result_number_sqs(CommonPrefixes))
                uploaded == is_job /\ result = "completed" /\ handler # "sqs_ecs_trigger"
            IN  /\ ~is_job => result = "completed"
                /\ event' =
                     IF escapes
                     THEN \* lambda_worker_handler has an outer except that answers
                          \* 500; the other two fail the invocation
                          [event EXCEPT !.code = IF handler = "lambda_worker_handler"
                                                 THEN 500 ELSE 0 - 1]
                     ELSE [event EXCEPT
                             !.next = @ + 1,
                             !.outcomes = Append(@, IF exc # "none" THEN "logged"
                                                    ELSE IF is_job THEN "processed"
                                                    ELSE "skipped")]
                /\ s3_status' = IF is_job
                                THEN BatchStatus(handler, record.run_id, result, folder_name)
                                ELSE s3_status
                /\ jobs' = IF is_job /\ handler = "sqs_ecs_trigger"
                           THEN StoredJobs(jobs, record.run_id, result # "raised")
                           ELSE jobs
                /\ bucket' = IF uploaded
                             THEN bucket \cup BatchObjects(handler, folder_name)
                             ELSE bucket
                /\ uploads' = IF uploaded THEN Append(uploads, folder_name) ELSE uploads
    /\ UNCHANGED <<numVars, api, status_resp, storage_resp, deploy, active_runs, sqs,
                   worker, tracker, trigger, other_task, now, faults, solve_resp,
                   stop_resp>>

\* the loop is over: the handler answers 200
handler_return ==
    /\ event.handler \in BatchHandlers
    /\ event.code = 0
    /\ event.next > Len(event.records)
    /\ event' = [event EXCEPT !.code = 200]
    /\ UNCHANGED <<numVars, api, status_resp, storage_resp, deploy, s3_status,
                   active_runs, jobs, bucket, sqs, worker, tracker, trigger, other_task,
                   now, faults, solve_resp, stop_resp, uploads>>

InitBatch ==
    /\ prefixes = {}
    /\ numbered = NotCalled
    /\ api = "lambda_handler"
    /\ deploy \in {"lambda_worker", "sqs_lambda", "ecs_trigger"}
    /\ \E records \in Batches :
          event = [handler |-> CASE deploy = "lambda_worker" -> "lambda_worker_handler"
                                 [] deploy = "sqs_lambda" -> "solver_worker_lambda"
                                 [] OTHER -> "sqs_ecs_trigger",
                   records |-> records, next |-> 1, outcomes |-> <<>>, code |-> 0]
    /\ bucket = {}
    /\ other_task = FALSE
    /\ worker = [w \in Workers |-> IdleWorker("off")]
    /\ tracker = [w \in Workers |-> NoTracker]
    /\ s3_status = [r \in RunIds |-> NoRec]
    /\ active_runs = [r \in RunIds |-> NoRec]
    /\ jobs = {}
    /\ sqs = [state |-> "none", holder |-> 0, deliveries |-> 0, keys |-> {}]
    /\ trigger = [pc |-> "idle", task_arn |-> FALSE]
    /\ now = 0
    /\ faults = 0
    /\ solve_resp = "none"
    /\ stop_resp = <<>>
    /\ uploads = <<>>
    /\ status_resp = NoResponse
    /\ storage_resp = NoStorageResponse

NextBatch == handle_record \/ handler_return

SpecBatch == InitBatch /\ [][NextBatch]_vars

(***************************************************************************)
(* The claims.                                                             *)
(***************************************************************************)
StatusOf(run_id) == s3_status[run_id].status
ProgressOf(run_id) == s3_status[run_id].progress

\* the consumer's delete_message removes the job message in this step
ConsumerDeletes ==
    /\ deploy = "ecs_poll"
    /\ sqs.state = "inflight"
    /\ sqs'.state = "gone"

\* C1: once the status record of the run holds completed, failed or stopped,
\* no later step changes its status or its progress.
C1_TerminalIsFinal ==
    [][StatusOf(Run) \in Terminal
         => /\ StatusOf(Run)' = StatusOf(Run)
            /\ ProgressOf(Run)' = ProgressOf(Run)]_vars

\* C2: the progress values stored for the run while its status is queued,
\* starting or running never decrease from one write to the next.
C2_ProgressNonDecreasing ==
    [][(StatusOf(Run) \in NonTerminal /\ StatusOf(Run)' \in NonTerminal)
         => ProgressOf(Run)' >= ProgressOf(Run)]_vars

\* C3: every run solve() queued eventually has a terminal status in the
\* store, as long as no AWS call fails.
C3_EventuallyTerminal ==
    (solve_resp = "queued") ~> (StatusOf(Run) \in Terminal \/ faults > 0)

\* C4: a stop request for a run with no matching worker task, in which no
\* AWS call fails, leaves the stored status of the run equal to stopped.
C4_StopAlwaysMarksStopped ==
    [][(/\ Len(stop_resp') > Len(stop_resp)
        /\ MatchingWorkers(Run) = {}
        /\ faults' = faults)
         => StatusOf(Run)' = "stopped"]_vars

\* the worker process has run the job of its message to the end
JobDone(w) ==
    \/ worker[w].pc \in {"ack", "l_return"}
    \/ worker[w].pc = "exit" /\ worker[w].outcome # "none"

\* C5: when a worker has handled a job message to the end, it has written
\* exactly one terminal status (completed or failed) for the run.
C5_OneTerminalWrite ==
    \A w \in Workers : JobDone(w) => worker[w].terms = 1

\* C6: the consumer deletes the job message only after its terminal status
\* write for the run succeeded.
C6_DeleteAfterTerminalWrite ==
    [][ConsumerDeletes => worker[sqs.holder].terms >= 1]_vars

\* C7: the consumer does not delete the job message of a job whose Solver
\* call raised.
C7_NoDeleteAfterSolverError ==
    [][ConsumerDeletes => worker[sqs.holder].outcome = "ok"]_vars

\* the tracker thread of worker w puts its status record in this step
TrackerWrites(w) ==
    /\ tracker[w].pc = "write"
    /\ tracker'[w].pc = "loop"
    /\ worker' = worker
    /\ faults' = faults

\* C8: once progress_tracker.stop() has returned, the tracker thread writes
\* no status record any more.
C8_NoWriteAfterStop ==
    [][\A w \in Workers : TrackerWrites(w) => ~tracker[w].stop_flag]_vars

MaxNumber == 20      \* the largest folder number the numbering check looks for

\* the numbers of the result_<N> and legacy Result_<N> folders among names
ResultNumbers(names) ==
    {n \in 0..MaxNumber :
        (ResultPrefix \o IntToStr(n)) \in names \/ (LegacyPrefix \o IntToStr(n)) \in names}

ExpectedNumber(names) ==
    IF ResultNumbers(names) = {} THEN 1
    ELSE (CHOOSE n \in ResultNumbers(names) : \A m \in ResultNumbers(names) : m <= n) + 1

\* C9: get_next_result_number of lambda_handler.py, solver_worker_ecs.py and
\* lambda_worker_handler.py returns 1 for a store without result folders and
\* the largest folder number plus one otherwise.
C9_MaxPlusOne ==
    numbered.called
      => /\ numbered.api = ExpectedNumber(prefixes)
         /\ numbered.ecs = ExpectedNumber(prefixes)
         /\ numbered.worker = ExpectedNumber(prefixes)

FolderNumber(name) == PyInt(RemoveAll(name, ResultPrefix)).val

FolderExists(name) == \E k \in bucket : k[1] = name

\* C10: when the job message was processed twice and no AWS call failed,
\* the two uploads returned two existing folders with consecutive numbers.
C10_RedeliveryConsecutiveFolders ==
    (faults = 0 /\ Len(uploads) >= 2)
      => \A i \in 1..(Len(uploads) - 1) :
            /\ FolderNumber(uploads[i + 1]) = FolderNumber(uploads[i]) + 1
            /\ FolderExists(uploads[i])
            /\ FolderExists(uploads[i + 1])

\* worker w has listed the store and taken its folder name, and has put no
\* key yet
AllocatedOnly(w) == worker[w].pc = "upload" /\ worker[w].upl = 0

\* C11: numbering is not atomic: two workers that both list the store before
\* either of them puts a key are given the same result_<N> folder name: two
\* workers holding a name under which no key exists yet hold the same name.
C11_RaceSameFolder ==
    \A w1, w2 \in DOMAIN worker :
        (/\ faults = 0
         /\ AllocatedOnly(w1) /\ ~FolderExists(worker[w1].folder)
         /\ AllocatedOnly(w2) /\ ~FolderExists(worker[w2].folder))
          => worker[w1].folder = worker[w2].folder

\* two uploads have ended under one folder name, both having written there
C11_Witness ==
    /\ faults = 0
    /\ Len(uploads) = 2
    /\ uploads[1] = uploads[2]
    /\ \A w \in DOMAIN worker : worker[w].pc = "complete" /\ worker[w].nfiles > 0
    /\ Key(uploads[1], MetadataJson) \in bucket
    /\ Key(uploads[1], OutFile(1)) \in bucket

\* the record get_status of the serving dispatcher answers from
StatusView(run_id) ==
    IF api = "lambda_handler" /\ s3_status[run_id] # NoRec THEN s3_status[run_id]
    ELSE active_runs[run_id]

\* solve() has answered with an error after send_message raised
SendFailed ==
    /\ solve_resp = "http500"
    /\ api = "lambda_handler" => s3_status[Run] # NoRec

\* C12: when send_message fails in solve(), the caller gets an error and the
\* status record of the run is failed and carries the error; the run is not
\* left queued.
C12_EnqueueFailureMarksFailed ==
    SendFailed
      => /\ StatusView(Run).status = "failed"
         /\ "error" \in StatusView(Run).keys

\* C18: solve() has written the queued record to the durable store and to
\* active_runs before the job message is in the queue: whenever the message
\* of the run exists, both records exist.
C18_RecordBeforeMessage ==
    sqs.state # "none" => (s3_status[Run] # NoRec /\ active_runs[Run] # NoRec)

\* get_status answers a request for run_id in this step
Answers(run_id) ==
    /\ status_resp'.n = status_resp.n + 1
    /\ status_resp'.run_id = run_id

\* C20: get_status answers from the durable record whenever the run has one;
\* it never answers from active_runs once a durable record exists.
C20_DurableRecordFirst ==
    [][\A run_id \in RunIds :
         (Answers(run_id) /\ s3_status[run_id] # NoRec /\ status_resp'.code = 200)
           => /\ status_resp'.from = "s3"
              /\ status_resp'.status = s3_status[run_id].status
              /\ status_resp'.progress = s3_status[run_id].progress]_vars

\* worker w's terminal write after the Solver raised goes through
SolverErrorStored(w) ==
    /\ worker[w].outcome = "raised"
    /\ worker[w].pc \in {"fail", "lw_except"}
    /\ worker'[w].terms = worker[w].terms + 1

\* C13: when the Solver raises, the record the worker stores has status
\* failed, progress -1 and an error text, and the worker has created no
\* result folder for the run.
C13_SolverErrorRecord ==
    [][\A w \in Workers :
         SolverErrorStored(w) =>
             /\ s3_status'[Run].status = "failed"
             /\ s3_status'[Run].progress = -1
             /\ "error" \in s3_status'[Run].keys
             /\ worker[w].folder = NoFolder]_vars

\* worker w's store of the completed record goes through after its upload
CompletedStored(w) ==
    /\ worker[w].outcome = "ok"
    /\ worker[w].pc \in {"complete", "lw_put100"}
    /\ worker'[w].terms = worker[w].terms + 1

\* C14: when the Solver returns and the upload succeeds, the final record
\* has status completed, progress 100 and names the folder the results were
\* uploaded to.
C14_CompletedRecord ==
    [][\A w \in Workers :
         CompletedStored(w) =>
             /\ s3_status'[Run].status = "completed"
             /\ s3_status'[Run].progress = 100
             /\ worker[w].folder # NoFolder
             /\ s3_status'[Run].out_dir = worker[w].folder]_vars

\* the six status values of a run
StatusValues == {"queued", "starting", "running", "completed", "failed", "stopped"}

\* C15: every status a component has stored for a run, in the durable record
\* or in the dispatcher's cache, and every status get_status has answered, is
\* one of queued, starting, running, completed, failed, stopped.
C15_SixStatusValues ==
    /\ \A run_id \in RunIds :
         /\ s3_status[run_id] # NoRec => s3_status[run_id].status \in StatusValues
         /\ active_runs[run_id] # NoRec => active_runs[run_id].status \in StatusValues
    /\ status_resp.code = 200 => status_resp.status \in StatusValues

\* the place of a status in the order queued, starting, running, terminal
StatusRank(status) ==
    CASE status = "queued" -> 1
      [] status = "starting" -> 2
      [] status = "running" -> 3
      [] status \in Terminal -> 4
      [] OTHER -> 0

\* C16: the status stored for a run moves only forward along queued,
\* starting, running, then completed, failed or stopped; no write of the
\* trigger, of a worker or of a redelivered message's handler moves it back.
C16_StatusMovesForward ==
    [][(s3_status[Run] # NoRec /\ s3_status'[Run] # NoRec)
         => StatusRank(StatusOf(Run)') >= StatusRank(StatusOf(Run))]_vars

\* stop_solver has answered "stopped": it stopped a task of the run
StopReturned == stop_resp # <<>> /\ stop_resp[Len(stop_resp)] = "stopped"

\* C17: once stop has returned for a run whose worker was still running, the
\* stored status of the run becomes stopped and stays stopped.
C17_StoppedForGood ==
    [](StopReturned => <>[](StatusOf(Run) = "stopped"))

\* a dispatcher's solve puts a message in the queue
Enqueues == sqs.state = "none" /\ sqs'.state = "visible" /\ solve_resp' = "queued"

\* a consumer receives the message a dispatcher has sent
ReceivesJob == solve_resp = "queued" /\ sqs.state = "visible" /\ sqs'.state # "visible"

\* the consumer that received the message goes on to run the job
AcceptsJob ==
    IF sqs'.holder = 0
    THEN trigger'.pc = "starting"
    ELSE worker'[sqs'.holder].pc \in {"job", "task", "lw_put0"}

\* C19: every message a dispatcher enqueues carries exactly run_id and case,
\* and every queue consumer that receives it accepts it and goes on to run
\* the Solver on it.
C19_MessageAccepted ==
    [][/\ Enqueues => sqs'.keys = {"run_id", "case"}
       /\ ReceivesJob => AcceptsJob]_vars

\* get_status answers a request for run_id, a run neither the durable store
\* nor the cache holds
AnswersUnknown(run_id) ==
    /\ status_resp'.n = status_resp.n + 1
    /\ status_resp'.run_id = run_id
    /\ s3_status[run_id] = NoRec
    /\ active_runs[run_id] = NoRec

\* C21: get_status for a run_id that neither the durable store nor the cache
\* holds answers 404 whenever the read of the durable store itself does not
\* fail.
C21_UnknownRunNotFound ==
    [][\A run_id \in RunIds :
         (AnswersUnknown(run_id) /\ faults' = faults) => status_resp'.code = 404]_vars

\* C21 as stated: 404 and no other error, whatever the store's read does
C21_AlwaysNotFound ==
    [][\A run_id \in RunIds : AnswersUnknown(run_id) => status_resp'.code = 404]_vars

\* an unknown run was asked for and 404 was the answer
C21_Witness ==
    /\ status_resp.code = 404
    /\ s3_status[status_resp.run_id] = NoRec
    /\ active_runs[status_resp.run_id] = NoRec


EnumerationFailed ==
    /\ Len(stop_resp') = Len(stop_resp) + 1
    /\ stop_resp'[Len(stop_resp')] = "stopped_or_completing"
    /\ worker' = worker

\* C23: when listing or describing the tasks fails during a stop request,
\* the request is answered with a success-shaped response
\* (stopped_or_completing) and, the store accepting the write, the stored
\* status of the run is stopped.
C23_StopSurvivesEnumerationError ==
    [][(EnumerationFailed /\ faults' = faults + 1) => StatusOf(Run)' = "stopped"]_vars

\* the enumeration failed, the caller was answered and the run is stopped
C23_Witness ==
    /\ stop_resp = <<"stopped_or_completing">>
    /\ faults = 1
    /\ StatusOf(Run) = "stopped"
    /\ s3_status[Run] = StoppedBareRec

\* the progress thread of worker w ends a put
EstimatorWrites(w) ==
    /\ tracker[w].pc \in {"write", "lw_write"}
    /\ tracker'[w].pc \in {"loop", "lw_loop"}

\* the cap of the estimator whose thread is at pc
EstimatorCap(pc) == IF pc = "write" THEN 95 ELSE UpdaterEnd - 1

\* C24: a progress estimator never writes 100: the tracker of the ECS worker
\* writes at most 95, the updater of the Lambda worker less than its
\* end_progress, and a step that brings the stored progress to 100 is the
\* worker's completion write.
C24_EstimatorBelowHundred ==
    [][/\ \A w \in Workers :
            EstimatorWrites(w) =>
                /\ tracker[w].pending <= EstimatorCap(tracker[w].pc)
                /\ tracker[w].pending < 100
       /\ (ProgressOf(Run)' = 100 /\ ProgressOf(Run) # 100)
            => \E w \in Workers : CompletedStored(w)]_vars

\* an estimator has written its cap, and the completion write has stored 100
C24_Witness ==
    /\ ProgressOf(Run) = 100
    /\ \E w \in Workers :
         /\ tracker[w].pc \in {"loop", "lw_loop"}
         /\ tracker[w].last_progress \in {95, UpdaterProgress(Seconds(UpdaterDuration))}

\* worker w has put every file of its output directory under its folder
AllFilesPresent(w) ==
    \A k \in 1..worker[w].nfiles : Key(worker[w].folder, OutFile(k)) \in bucket

\* C25: metadata.json is the last key of an upload: every upload that has
\* returned a folder name has put metadata.json there, and when the
\* metadata.json of a worker's folder exists every file of that worker's
\* output is in the folder.
C25_MetadataLast ==
    /\ \A i \in DOMAIN uploads : Key(uploads[i], MetadataJson) \in bucket
    /\ \A w \in Workers :
         (/\ worker[w].folder # NoFolder
          /\ worker[w].out_exists
          /\ Key(worker[w].folder, MetadataJson) \in bucket)
            => AllFilesPresent(w)

\* the largest folder number of names belongs to a legacy Result_<N> folder
LegacyIsLargest(names) ==
    \E n \in ResultNumbers(names) :
        /\ (LegacyPrefix \o IntToStr(n)) \in names
        /\ \A m \in ResultNumbers(names) : m <= n

\* C26: a legacy Result_<N> folder counts in the numbering of every
\* component: when the largest number belongs to a Result_<N> folder (Result_5
\* beside result_2), lambda_handler.py, solver_worker_ecs.py and
\* solver_worker_lambda.py all allocate N + 1.
C26_LegacyFoldersCount ==
    (numbered.called /\ LegacyIsLargest(prefixes))
      => /\ numbered.api = ExpectedNumber(prefixes)
         /\ numbered.ecs = ExpectedNumber(prefixes)
         /\ numbered.sqs = ExpectedNumber(prefixes)

\* name is result_<N> written as the allocators write it
IsResultFolder(name) == \E n \in 0..MaxNumber : name = FolderName(n)

\* C27: the folders list_result_folders returns are in descending order of
\* folder number: a result_<N> folder comes before every result_<M> folder
\* with M < N.
C27_ListedByNumberDescending ==
    storage_resp.op = "list" =>
        \A i, j \in DOMAIN storage_resp.folders :
            (/\ i < j
             /\ IsResultFolder(storage_resp.folders[i])
             /\ IsResultFolder(storage_resp.folders[j]))
              => FolderNumber(storage_resp.folders[i]) > FolderNumber(storage_resp.folders[j])

\* a delete request for folder_name is answered
DeleteAnswered(folder_name) ==
    /\ storage_resp.op = "none"
    /\ storage_resp'.op = "delete"
    /\ bucket' \ Contents(folder_name) = bucket \ Contents(folder_name)

\* C28: a delete request that is answered 200 has removed every key under
\* the folder's prefix and reports how many; a request for a prefix without
\* keys is answered 404 and removes nothing.
C28_DeleteFolder ==
    [][\A folder_name \in FolderArgs :
         (DeleteAnswered(folder_name) /\ faults' = faults) =>
            IF Contents(folder_name) = {}
            THEN storage_resp'.code = 404 /\ bucket' = bucket
            ELSE /\ storage_resp'.code = 200
                 /\ bucket' = bucket \ Contents(folder_name)
                 /\ "deleted_count" \in storage_resp'.body]_vars

\* C29: every status record stored for a run carries the created_at of the
\* initial record, and carries completed_at exactly when its status is
\* terminal, the terminal write being the one that sets it.
C29_Timestamps ==
    \A run_id \in RunIds :
        s3_status[run_id] # NoRec =>
            /\ "created_at" \in s3_status[run_id].keys
            /\ s3_status[run_id].status \in Terminal
                 <=> "completed_at" \in s3_status[run_id].keys

\* C30: update_progress changes the entry of a run only if the run has an
\* entry, the entry is not terminal and the new progress is not lower than
\* the stored one; otherwise progress and status stay as they were.
C30_UpdateProgressGuards ==
    [][\A run_id \in RunIds :
         active_runs'[run_id] # active_runs[run_id] =>
            /\ active_runs[run_id] # NoRec
            /\ active_runs[run_id].status \notin Terminal
            /\ active_runs'[run_id].progress >= active_runs[run_id].progress]_vars

\* a pass of w's progress loop has computed a value at this step
EstimatorComputes(w) ==
    /\ tracker[w].pc \in {"loop", "lw_loop"}
    /\ tracker'[w].pc \in {"write", "lw_write"}

\* C31: the progress an estimator computes does not decrease with elapsed
\* time: the value a pass of the loop computes is not lower than the value
\* the pass before it computed at an earlier reading of the clock.
C31_EstimateNonDecreasing ==
    [][\A w \in Workers :
          EstimatorComputes(w) => tracker'[w].pending >= tracker[w].last_progress]_vars

\* an upload of worker w picks its folder name at this step
Allocates(w) ==
    /\ worker'[w].folder # NoFolder
    /\ worker'[w].folder # worker[w].folder

\* C32: an upload never takes a folder that held keys when it allocated, so
\* that an upload which starts after another has finished writes under a
\* different folder name, also when listing the store fails or the output
\* directory is missing.
C32_FreshFolder ==
    [][\A w \in Workers :
          Allocates(w) => \A k \in bucket : k[1] # worker'[w].folder]_vars

\* the latest get_status answered for the run with the status its entry holds
PollSawTerminal ==
    /\ status_resp.run_id = Run
    /\ status_resp.code = 200
    /\ status_resp.status = active_runs[Run].status

\* C33: with no queue configured, once solve has run the optimisation and
\* returned the run_id, a client that polls get_status eventually gets the
\* terminal status (completed or failed) the run reached.
C33_SyncTerminalObserved ==
    [](  (solve_resp = "queued" /\ active_runs[Run].status \in {"completed", "failed"})
      => <>PollSawTerminal)

\* the trigger's handler returns at this step
TriggerReturns == trigger.pc = "final" /\ trigger'.pc = "idle"

\* C34: when the trigger returns after a well-formed message, the status of
\* the run is running if the ECS task was started and failed if it was not,
\* and never starting.
C34_TriggerOutcomeStored ==
    [][TriggerReturns =>
          /\ StatusOf(Run)' = (IF trigger.task_arn THEN "running" ELSE "failed")
          /\ StatusOf(Run)' # "starting"]_vars

\* worker w has left its boot: it runs, or has run, process_solver_job
PastBoot(w) == worker[w].pc \notin {"off", "boot", "exit"}

\* C35: the input of a run is stored at jobs/<run_id>/input.json before the
\* task of the run is started: a started single-run worker has its input in
\* the store, and the run it processes is the RUN_ID it was started with.
C35_InputBeforeTask ==
    deploy = "ecs_trigger" =>
        \A w \in DOMAIN worker :
            /\ worker[w].pc = "boot" => TaskRunId(w) \in jobs
            /\ PastBoot(w) => worker[w].run_id = TaskRunId(w)

\* both tasks have read their input and process their own run
C35_Witness ==
    /\ \A w \in DOMAIN worker : PastBoot(w)
    /\ \E w1, w2 \in DOMAIN worker : worker[w1].run_id # worker[w2].run_id

\* the task or the progress thread of worker w takes part in this step
TaskActs(w) == worker'[w] # worker[w] \/ tracker'[w] # tracker[w]

\* C37: an operation on one run writes only the status record of that run:
\* a step changes the record of at most one run; when a task or its progress
\* thread takes part in the step, it is the record of the task's run; the
\* submit and the trigger of Run change only the record of Run; the
\* dispatcher's entry of a run is changed only by the submit of that run.
C37_OwnRecordOnly ==
    [][\A r \in RunIds :
          /\ s3_status'[r] # s3_status[r] =>
                /\ \A q \in RunIds \ {r} : s3_status'[q] = s3_status[q]
                /\ \A w \in DOMAIN worker : TaskActs(w) => TaskRunId(w) = r
                /\ (solve_resp' # solve_resp \/ trigger' # trigger) => r = Run
          /\ active_runs'[r] # active_runs[r] =>
                (solve_resp' # solve_resp /\ r = Run)]_vars

\* the records of both runs have been written, each by the operations on it
C37_Witness ==
    /\ StatusOf(Run) = "completed"
    /\ StatusOf(OtherRun) = "stopped"

\* C36: a record of a batch that is malformed, or whose processing raises,
\* does not keep the handler from the records after it: the handler always
\* ends with a success response, and then it has passed over every record
\* and has processed each job record whose processing did not raise.
C36_BatchSurvivesBadRecord ==
    /\ event.code \in {0, 200}
    /\ event.code = 200 =>
          /\ Len(event.outcomes) = Len(event.records)
          /\ \A k \in 1..Len(event.records) :
                event.records[k].shape = "job"
                    => event.outcomes[k] \in {"processed", "logged"}

\* the handler has answered 200 for a batch whose first record raised and
\* whose second record was processed
C36_Witness ==
    /\ event.code = 200
    /\ Len(event.records) = MaxRecords
    /\ event.outcomes[1] = "logged"
    /\ event.outcomes[MaxRecords] = "processed"

============================================================================
